---------------------------- MODULE Spec2Model ----------------------------
(***************************************************************************)
(* Model of the TRTC-ASR Node.js SDK: the streaming session state machine  *)
(* (SpeechRecognizer), the Credential it shares, and the query-string      *)
(* builder (SignatureParams).                                              *)
(*                                                                         *)
(* Strings that the code sorts, joins or percent-encodes are sequences of  *)
(* UTF-16 code units, so that sorting and encoding are computed, not       *)
(* assumed.  Enumerations (error codes, callback names) are TLA+ strings.  *)
(***************************************************************************)
EXTENDS Integers, Sequences, FiniteSets, TLC

VARIABLES
    \* ---- SignatureParams (src/src/signature.ts) ----
    sp,         \* the SignatureParams instance under test
    qs,         \* last result of buildQueryString(), or NoString
    qss,        \* last result of buildQueryStringWithSignature(tok), or NoString
    qtok,       \* the token passed to buildQueryStringWithSignature
    \* ---- SpeechRecognizer fields (src/src/index.ts) ----
    state,        \* this.state
    ws,           \* this.ws: "null", or "WebSocket" for the handle
    doneResolve,  \* this.doneResolve is non-null
    donePromise,  \* this.donePromise: "null", "pending" or "resolved"
    writeTimeout, \* this.writeTimeout, in ms
    voiceId,      \* this.voiceId
    \* ---- Credential (src/src/credential.ts) ----
    userSig,      \* credential.userSig
    \* ---- the WebSocket created by connect(), and the calls in flight ----
    readyState,   \* its readyState, "NONE" before the first is created
    staleCloses,  \* WebSockets of earlier start() attempts that still owe "close"
    startP,       \* the promise returned by the latest accepted start()
    stopOp,       \* the stop() call that passed the state guard
    writes,       \* the write() calls that passed the guards
    \* ---- what the environment observes ----
    sent,         \* frames handed to WebSocket.send, in order
    conn,         \* signature and token header of the latest connection request
    ret,          \* the promise returned by the API call of the latest step
    cbs,          \* listener callbacks invoked by the latest step, in order
    nComplete,    \* number of onRecognitionComplete invocations so far
    fatalSeen,    \* an inbound event with a non-zero code has been handled
    frame,        \* the inbound frame the latest step handled, if it handled one
    \* ---- several sessions sharing the Credential (userSig above) ----
    sessions,     \* sessions[i]: state, voiceId, startP and conn of session i
    genCalls,     \* number of genUserSig invocations so far
    tokenWrites,  \* number of assignments connect() made to credential.userSig
    \* ---- the HTTP recognizers (FileRecognizer, SentenceRecognizer) ----
    call,         \* the last method called, with its arguments
    reply,        \* how that call settled, and what it did before settling
    poll          \* the waitForResult call in flight: its loop, clock and outcome

sigvars == <<sp, qs, qss, qtok>>
sessvars == <<state, ws, doneResolve, donePromise, writeTimeout, voiceId, userSig,
              readyState, staleCloses, startP, stopOp, writes, sent, conn, ret, cbs,
              nComplete, fatalSeen, frame>>
credvars == <<sessions, genCalls, tokenWrites>>
httpvars == <<call, reply, poll>>
vars == <<sigvars, sessvars, credvars, httpvars>>

----------------------------------------------------------------------------
(* String literals, as sequences of UTF-16 code units.                     *)

k_secretid == <<115, 101, 99, 114, 101, 116, 105, 100>>   \* "secretid"
k_timestamp == <<116, 105, 109, 101, 115, 116, 97, 109, 112>>   \* "timestamp"
k_expired == <<101, 120, 112, 105, 114, 101, 100>>   \* "expired"
k_nonce == <<110, 111, 110, 99, 101>>   \* "nonce"
k_engine_model_type == <<101, 110, 103, 105, 110, 101, 95, 109, 111, 100, 101, 108, 95, 116, 121, 112, 101>>   \* "engine_model_type"
k_voice_id == <<118, 111, 105, 99, 101, 95, 105, 100>>   \* "voice_id"
k_voice_format == <<118, 111, 105, 99, 101, 95, 102, 111, 114, 109, 97, 116>>   \* "voice_format"
k_needvad == <<110, 101, 101, 100, 118, 97, 100>>   \* "needvad"
k_hotword_id == <<104, 111, 116, 119, 111, 114, 100, 95, 105, 100>>   \* "hotword_id"
k_customization_id == <<99, 117, 115, 116, 111, 109, 105, 122, 97, 116, 105, 111, 110, 95, 105, 100>>   \* "customization_id"
k_filter_dirty == <<102, 105, 108, 116, 101, 114, 95, 100, 105, 114, 116, 121>>   \* "filter_dirty"
k_filter_modal == <<102, 105, 108, 116, 101, 114, 95, 109, 111, 100, 97, 108>>   \* "filter_modal"
k_filter_punc == <<102, 105, 108, 116, 101, 114, 95, 112, 117, 110, 99>>   \* "filter_punc"
k_convert_num_mode == <<99, 111, 110, 118, 101, 114, 116, 95, 110, 117, 109, 95, 109, 111, 100, 101>>   \* "convert_num_mode"
k_word_info == <<119, 111, 114, 100, 95, 105, 110, 102, 111>>   \* "word_info"
k_vad_silence_time == <<118, 97, 100, 95, 115, 105, 108, 101, 110, 99, 101, 95, 116, 105, 109, 101>>   \* "vad_silence_time"
k_max_speak_time == <<109, 97, 120, 95, 115, 112, 101, 97, 107, 95, 116, 105, 109, 101>>   \* "max_speak_time"
k_signature == <<115, 105, 103, 110, 97, 116, 117, 114, 101>>   \* "signature"

s_16k_zh == <<49, 54, 107, 95, 122, 104>>   \* "16k_zh"
s_v1 == <<118, 45, 49>>   \* "v-1"
s_sp == <<97, 32, 98>>   \* "a b"
s_c1 == <<99, 38, 49>>   \* "c&1"
s_tok == <<101, 74, 121, 42, 45, 95>>   \* "eJy*-_"
s_tok2 == <<116, 47, 43, 61>>   \* "t/+="

EmptyStr == << >>
\* "no string": the value of a result that has not been produced
NoString == <<-1>>

\* Code units written inline below: 38 "&", 61 "=", 37 "%", 45 "-", 48 "0", 65 "A".

----------------------------------------------------------------------------
(* JavaScript primitives used by signature.ts                              *)

RECURSIVE DigitsOf(_)
DigitsOf(n) ==
    IF n < 10 THEN <<48 + n>>
    ELSE Append(DigitsOf(n \div 10), 48 + (n % 10))

\* String(n) for an integer n
String(n) == IF n < 0 THEN <<45>> \o DigitsOf(0 - n) ELSE DigitsOf(n)

\* a < b for strings: comparison of UTF-16 code units, the order of
\* Array.prototype.sort() without a comparator
RECURSIVE StrLess(_, _)
StrLess(a, b) ==
    IF a = << >> THEN b # << >>
    ELSE IF b = << >> THEN FALSE
    ELSE IF Head(a) # Head(b) THEN Head(a) < Head(b)
    ELSE StrLess(Tail(a), Tail(b))

\* Array.prototype.sort() without a comparator, on a list of strings
RECURSIVE InsertSorted(_, _)
InsertSorted(k, sorted) ==
    IF sorted = << >> THEN <<k>>
    ELSE IF StrLess(k, Head(sorted)) THEN <<k>> \o sorted
    ELSE <<Head(sorted)>> \o InsertSorted(k, Tail(sorted))

RECURSIVE SortStrings(_)
SortStrings(ks) ==
    IF ks = << >> THEN << >>
    ELSE InsertSorted(Head(ks), SortStrings(Tail(ks)))

HexDigit(d) == IF d < 10 THEN 48 + d ELSE 65 + (d - 10)
PctByte(b) == <<37, HexDigit(b \div 16), HexDigit(b % 16)>>

\* the characters encodeURIComponent leaves alone: A-Z a-z 0-9 - _ . ! ~ * ' ( )
Unreserved(c) ==
    \/ c \in 65..90 \/ c \in 97..122 \/ c \in 48..57
    \/ c \in {45, 95, 46, 33, 126, 42, 39, 40, 41}

\* encodeURIComponent of one code unit below U+0800 (UTF-8, one or two bytes)
EncodeChar(c) ==
    IF Unreserved(c) THEN <<c>>
    ELSE IF c < 128 THEN PctByte(c)
    ELSE PctByte(192 + (c \div 64)) \o PctByte(128 + (c % 64))

RECURSIVE encodeURIComponent(_)
encodeURIComponent(s) ==
    IF s = << >> THEN << >>
    ELSE EncodeChar(Head(s)) \o encodeURIComponent(Tail(s))

----------------------------------------------------------------------------
(* SignatureParams: src/src/signature.ts                                   *)

\* An option of SignatureParamsOptions is either absent (undefined) or given.
Undef == [given |-> FALSE]
Given(v) == [given |-> TRUE, v |-> v]
\* opts.x ?? d
Nullish(o, d) == IF o.given THEN o.v ELSE d

ValidityWindow == 86400
NonceRange == 9999999

\* the defaults the constructor gives the fields (opts.x ?? d)
Defaults ==
    [ voiceFormat     |-> 1,
      needVad         |-> 1,
      convertNumMode  |-> 1,
      hotwordId       |-> EmptyStr,
      customizationId |-> EmptyStr,
      filterDirty     |-> 0,
      filterModal     |-> 0,
      filterPunc      |-> 0,
      wordInfo        |-> 0,
      vadSilenceTime  |-> 0,
      maxSpeakTime    |-> 0 ]

\* new SignatureParams(opts), with Date.now()/1000 = now and
\* Math.floor(Math.random() * 9999999) + 1 = nonce
SignatureParams(opts, now, nonce) ==
    [ appId           |-> opts.appId,
      engineModelType |-> opts.engineModelType,
      voiceId         |-> opts.voiceId,
      timestamp       |-> now,
      expired         |-> now + ValidityWindow,
      nonce           |-> nonce,
      voiceFormat     |-> Nullish(opts.voiceFormat, Defaults.voiceFormat),
      needVad         |-> Nullish(opts.needVad, Defaults.needVad),
      convertNumMode  |-> Nullish(opts.convertNumMode, Defaults.convertNumMode),
      hotwordId       |-> Nullish(opts.hotwordId, Defaults.hotwordId),
      customizationId |-> Nullish(opts.customizationId, Defaults.customizationId),
      filterDirty     |-> Nullish(opts.filterDirty, Defaults.filterDirty),
      filterModal     |-> Nullish(opts.filterModal, Defaults.filterModal),
      filterPunc      |-> Nullish(opts.filterPunc, Defaults.filterPunc),
      wordInfo        |-> Nullish(opts.wordInfo, Defaults.wordInfo),
      vadSilenceTime  |-> Nullish(opts.vadSilenceTime, Defaults.vadSilenceTime),
      maxSpeakTime    |-> Nullish(opts.maxSpeakTime, Defaults.maxSpeakTime) ]

\* if (x) m[k] = v : the entry is added when x is truthy
IfTruthyStr(x, k) == IF x # EmptyStr THEN << <<k, x>> >> ELSE << >>
IfTruthyNum(x, k) == IF x # 0 THEN << <<k, String(x)>> >> ELSE << >>

\* toMap() with the truthiness test applied to every numeric entry
toMap_sparseRequired(p) ==
    << <<k_secretid, String(p.appId)>>,
       <<k_timestamp, String(p.timestamp)>>,
       <<k_expired, String(p.expired)>>,
       <<k_nonce, String(p.nonce)>>,
       <<k_engine_model_type, p.engineModelType>>,
       <<k_voice_id, p.voiceId>> >>
    \o IfTruthyNum(p.voiceFormat, k_voice_format)
    \o IfTruthyNum(p.needVad, k_needvad)
    \o IfTruthyStr(p.hotwordId, k_hotword_id)
    \o IfTruthyStr(p.customizationId, k_customization_id)
    \o IfTruthyNum(p.filterDirty, k_filter_dirty)
    \o IfTruthyNum(p.filterModal, k_filter_modal)
    \o IfTruthyNum(p.filterPunc, k_filter_punc)
    \o IfTruthyNum(p.convertNumMode, k_convert_num_mode)
    \o IfTruthyNum(p.wordInfo, k_word_info)
    \o IfTruthyNum(p.vadSilenceTime, k_vad_silence_time)
    \o IfTruthyNum(p.maxSpeakTime, k_max_speak_time)

\* toMap(): the Record as the list of its <<key, value>> entries in
\* insertion order (the order Object.keys() reports)
toMap(p) ==
    << <<k_secretid, String(p.appId)>>,
       <<k_timestamp, String(p.timestamp)>>,
       <<k_expired, String(p.expired)>>,
       <<k_nonce, String(p.nonce)>>,
       <<k_engine_model_type, p.engineModelType>>,
       <<k_voice_id, p.voiceId>>,
       <<k_voice_format, String(p.voiceFormat)>>,
       <<k_needvad, String(p.needVad)>> >>
    \o IfTruthyStr(p.hotwordId, k_hotword_id)
    \o IfTruthyStr(p.customizationId, k_customization_id)
    \o IfTruthyNum(p.filterDirty, k_filter_dirty)
    \o IfTruthyNum(p.filterModal, k_filter_modal)
    \o IfTruthyNum(p.filterPunc, k_filter_punc)
    \o IfTruthyNum(p.convertNumMode, k_convert_num_mode)
    \o IfTruthyNum(p.wordInfo, k_word_info)
    \o IfTruthyNum(p.vadSilenceTime, k_vad_silence_time)
    \o IfTruthyNum(p.maxSpeakTime, k_max_speak_time)

\* Object.keys(params)
ObjectKeys(m) == [i \in 1..Len(m) |-> m[i][1]]
\* params[k]
Lookup(m, k) == (CHOOSE i \in 1..Len(m) : m[i][1] = k)
MapGet(m, k) == m[Lookup(m, k)][2]
\* params[k] = v : overwrite in place, or append a new key
MapSet(m, k, v) ==
    IF \E i \in 1..Len(m) : m[i][1] = k
    THEN [m EXCEPT ![Lookup(m, k)] = <<k, v>>]
    ELSE Append(m, <<k, v>>)

\* Array.prototype.join("&")
RECURSIVE JoinAmp(_)
JoinAmp(parts) ==
    IF parts = << >> THEN << >>
    ELSE IF Len(parts) = 1 THEN parts[1]
    ELSE parts[1] \o <<38>> \o JoinAmp(Tail(parts))

\* the order in which encodeParams emits the keys
KeyOrder_insertion(m) == ObjectKeys(m)
\* the other keys sorted, and signature after them
KeyOrder_signatureLast(m) ==
    LET ks == ObjectKeys(m)
    IN  SortStrings(SelectSeq(ks, LAMBDA k : k # k_signature))
        \o SelectSeq(ks, LAMBDA k : k = k_signature)
KeyOrder(m) == SortStrings(ObjectKeys(m))

\* encodeParams(params)
encodeParams(m) ==
    LET ks == KeyOrder(m)
    IN  JoinAmp([i \in 1..Len(ks) |->
                    ks[i] \o <<61>> \o encodeURIComponent(MapGet(m, ks[i]))])

buildQueryString(p) == encodeParams(toMap(p))

buildQueryStringWithSignature(p, sig) ==
    encodeParams(MapSet(toMap(p), k_signature, sig))

----------------------------------------------------------------------------
(* Reading a query string back, as the tests do with split("&") and        *)
(* split("="): used by the properties only.                                *)

\* String.prototype.split(sep) for a one-character separator
SplitOn(s, sep) ==
    LET at == {i \in 1..Len(s) : s[i] = sep}
        \* the position of the k-th separator; 0 and Len(s) + 1 close the ends
        pos(k) == IF k = 0 THEN 0
                  ELSE IF k > Cardinality(at) THEN Len(s) + 1
                  ELSE CHOOSE i \in at : Cardinality({j \in at : j < i}) = k - 1
    IN  [k \in 1..(Cardinality(at) + 1) |-> SubSeq(s, pos(k - 1) + 1, pos(k) - 1)]

\* the k=v parts of a query string
QueryParts(q) == SplitOn(q, 38)
PartKey(part) == SplitOn(part, 61)[1]
PartValue(part) == SubSeq(part, Len(PartKey(part)) + 2, Len(part))
QueryKeys(q) ==
    LET parts == QueryParts(q)
    IN  [i \in 1..Len(parts) |-> PartKey(parts[i])]
HasKey(q, k) == LET ks == QueryKeys(q) IN \E i \in 1..Len(ks) : ks[i] = k
CountKey(q, k) == LET ks == QueryKeys(q) IN Cardinality({i \in 1..Len(ks) : ks[i] = k})
ValueOfKey(q, k) ==
    LET parts == QueryParts(q)
        ks == QueryKeys(q)
    IN  PartValue(parts[CHOOSE i \in 1..Len(parts) : ks[i] = k])
\* the parts of q whose key is not k, in order
RECURSIVE WithoutKey(_, _)
WithoutKey(parts, k) ==
    IF parts = << >> THEN << >>
    ELSE IF PartKey(Head(parts)) = k THEN WithoutKey(Tail(parts), k)
    ELSE <<Head(parts)>> \o WithoutKey(Tail(parts), k)
Ascending(ks) == \A i \in 1..(Len(ks) - 1) : StrLess(ks[i], ks[i + 1])

----------------------------------------------------------------------------
(* The inputs drawn for SignatureParams                                    *)

OptOf(S) == {Undef} \cup {Given(v) : v \in S}

SigOptions ==
    [ appId           : {1300403317},
      engineModelType : {s_16k_zh},
      voiceId         : {s_v1},
      voiceFormat     : OptOf({0}),
      needVad         : OptOf({0}),
      convertNumMode  : OptOf({0, 1, 2}),
      hotwordId       : OptOf({EmptyStr, s_sp}),
      customizationId : OptOf({s_c1}),
      filterDirty     : OptOf({0, 1}),
      filterModal     : OptOf({1}),
      filterPunc      : OptOf({1}),
      wordInfo        : OptOf({2}),
      vadSilenceTime  : OptOf({500}),
      maxSpeakTime    : OptOf({60000}) ]

SigClock == {1700000000}
SigNonces == {1, NonceRange}
SigTokens == {s_tok, s_tok2}
\* what credential.setUserSig is given while sessions share the Credential: a
\* token, or "" which clears the one it holds
CredTokens == {s_tok2, EmptyStr}

----------------------------------------------------------------------------
(* ErrorCode: src/src/file-recognizer.ts (errors module)                   *)

INVALID_PARAM == 1001
CONNECT_FAILED == 1002
WRITE_FAILED == 1003
READ_FAILED == 1004
AUTH_FAILED == 1005
TIMEOUT == 1006
SERVER_ERROR == 1007
ALREADY_STARTED == 1008
NOT_STARTED == 1009
ALREADY_STOPPED == 1010

----------------------------------------------------------------------------
(* SpeechRecognizer: src/src/index.ts                                      *)

\* enum State
IDLE == 0
STARTING == 1
RUNNING == 2
STOPPING == 3
STOPPED == 4

\* the ceiling of stop()'s wait for the read side, and the default write timeout (ms)
CeilingMs == 10000
DefaultWriteTimeout == 5000
\* the validity asked of genUserSig by connect()
UserSigExpire == 86400

\* ---- bounds of the model ----
MaxWrites == 1      \* write() calls that pass the guards
MaxFinals == 2      \* inbound responses with final = 1 and code = 0
MaxStaleCloses == 1 \* sockets of earlier attempts owing "close" at a time

\* The clock advances in steps of TickMs; a timer fires at the first step at
\* which its delay has elapsed.
TickMs == CeilingMs \div 4
\* the values given to setWriteTimeout
WriteTimeoutChoices == {TickMs, DefaultWriteTimeout}

\* A promise: pending, resolved, or rejected with an ASRError code.
NoPromise == [st |-> "none", code |-> 0]
Pending == [st |-> "pending", code |-> 0]
Resolved == [st |-> "resolved", code |-> 0]
Rejected(c) == [st |-> "rejected", code |-> c]
\* resolve()/reject() on a promise: only a pending promise changes
Settle(p, q) == IF p.st = "pending" THEN q ELSE p

NoReturn == [op |-> "none", p |-> NoPromise]
Return(op, p) == [op |-> op, p |-> p]

\* A timer is its age in ms, or NoTimer when it is not armed.
NoTimer == -1

NoStop == [pc |-> "none", p |-> NoPromise, cb |-> "none", timer |-> NoTimer,
           timeout |-> 0, elapsed |-> 0]

\* a listener callback invocation: its name, the response passed (NoResponse
\* for null), and the code of the error passed (0 when there is none)
Callback(name, resp, code) == [name |-> name, resp |-> resp, code |-> code]

\* Inbound frames: a payload JSON.parse rejects, the JSON text null, or a
\* response with its code, final flag and result.slice_type (AbsentSlice when
\* the field is missing).
AbsentSlice == -1
Malformed == [kind |-> "malformed", code |-> 0, final |-> 0, slice |-> AbsentSlice]
Events == [kind : {"event"}, code : {0, AUTH_FAILED}, final : {0, 1},
           slice : {AbsentSlice, 0, 1, 2}]
JsonNull == [kind |-> "jsonnull", code |-> 0, final |-> 0, slice |-> AbsentSlice]
Frames == {Malformed, JsonNull} \cup Events
\* null in the place of a response
NoResponse == [kind |-> "null", code |-> 0, final |-> 0, slice |-> AbsentSlice]
\* no inbound frame
NoFrame == [kind |-> "none", code |-> 0, final |-> 0, slice |-> AbsentSlice]

\* uuidv4()
uuidv4 == s_v1

\* genUserSig(sdkAppId, key, userId, expire): the signing primitive is opaque;
\* the token is a deterministic function of the subject
genUserSig(userId, expire) == s_tok \o userId

\* the options connect() passes to new SignatureParams
ConnectOptions(vid) ==
    [ appId           |-> 1300403317,
      engineModelType |-> s_16k_zh,
      voiceId         |-> vid,
      voiceFormat     |-> Given(1),
      needVad         |-> Given(1),
      convertNumMode  |-> Given(1),
      hotwordId       |-> Given(EmptyStr),
      customizationId |-> Given(EmptyStr),
      filterDirty     |-> Given(0),
      filterModal     |-> Given(0),
      filterPunc      |-> Given(0),
      wordInfo        |-> Given(0),
      vadSilenceTime  |-> Given(0),
      maxSpeakTime    |-> Given(0) ]

SessInit ==
    /\ state = IDLE
    /\ ws = "null"
    /\ doneResolve = FALSE
    /\ donePromise = "null"
    /\ writeTimeout = DefaultWriteTimeout
    /\ voiceId = EmptyStr
    /\ userSig = EmptyStr
    /\ readyState = "NONE"
    /\ staleCloses = 0
    /\ startP = NoPromise
    /\ stopOp = NoStop
    /\ writes = << >>
    /\ sent = << >>
    /\ conn = [sig |-> NoString, hdr |-> NoString]
    /\ ret = NoReturn
    /\ cbs = << >>
    /\ nComplete = 0
    /\ fatalSeen = FALSE
    /\ frame = NoFrame

\* no HTTP recognizer method has been called
\* no waitForResult call yet; Date.now() is counted from the construction
NoStatus == -1
NoPoll == [op |-> "none", pc |-> "idle", id |-> << >>, interval |-> 0, timeout |-> 0,
           now |-> 0, deadline |-> 0, polls |-> 0, status |-> NoStatus,
           error |-> [code |-> 0, message |-> "none"], p |-> NoPromise]

HttpInit ==
    /\ call = [op |-> "none"]
    /\ reply = [op |-> "none"]
    /\ poll = NoPoll

\* ---- bounds of the model of a shared Credential ----
MaxSessions == 2    \* sessions constructed on the Credential
MaxGenCalls == 2    \* genUserSig invocations

SessionIds == 1..MaxSessions

\* the sessions as constructed, and nothing derived yet
CredInit ==
    /\ sessions = [i \in SessionIds |->
                     [state |-> IDLE, voiceId |-> EmptyStr, startP |-> NoPromise,
                      conn |-> [sig |-> NoString, hdr |-> NoString]]]
    /\ genCalls = 0
    /\ tokenWrites = 0

Init ==
    /\ sp = SignatureParams(ConnectOptions(s_v1), 1700000000, 1)
    /\ qs = NoString
    /\ qss = NoString
    /\ qtok = NoString
    /\ SessInit
    /\ CredInit
    /\ HttpInit

\* ---- helpers shared by the handlers ----

\* a close() that closes the socket and keeps the handle
close_keepsHandle ==
    /\ readyState' = IF ws # "null" /\ readyState = "OPEN" THEN "CLOSING"
                     ELSE readyState
    /\ ws' = ws

\* close(): ws.close() on the current handle, then this.ws = null.
\* WebSocket.close() moves an open socket to CLOSING; on a socket that is
\* already closing or closed it does nothing.
close ==
    /\ readyState' = IF ws # "null" /\ readyState = "OPEN" THEN "CLOSING"
                     ELSE readyState
    /\ ws' = "null"

\* a release that keeps the resolver for the next trigger
releaseDone_keepsHandle ==
    /\ donePromise' = IF doneResolve /\ donePromise = "pending" THEN "resolved"
                      ELSE donePromise
    /\ doneResolve' = doneResolve

\* if (this.doneResolve) { this.doneResolve(); this.doneResolve = null; }
releaseDone ==
    /\ donePromise' = IF doneResolve /\ donePromise = "pending" THEN "resolved"
                      ELSE donePromise
    /\ doneResolve' = FALSE

\* setWriteTimeout(ms)
setWriteTimeout ==
    /\ frame' = NoFrame
    /\ \E ms \in WriteTimeoutChoices \ {writeTimeout} : writeTimeout' = ms
    /\ ret' = NoReturn
    /\ cbs' = << >>
    /\ UNCHANGED <<state, ws, doneResolve, donePromise, voiceId, staleCloses, userSig,
                   readyState, startP, stopOp, writes, sent, conn, nComplete, fatalSeen>>

\* ---- start() and connect() ----

\* the state guard of start(): the call is rejected
StartRejects_restartable == state \notin {IDLE, STOPPED}
StartRejects == state # IDLE

\* the signed query string and the token header of the connection request
ConnectRequest(vid, sig, now, nonce) ==
    [ sig |-> ValueOfKey(buildQueryStringWithSignature(
                             SignatureParams(ConnectOptions(vid), now, nonce), sig),
                         k_signature),
      hdr |-> sig ]

\* a provider that is asked on every connect, whatever the Credential holds
TokenMissing_always == TRUE

\* if (!this.credential.userSig)
TokenMissing == userSig = EmptyStr

\* a catch block of genUserSig that rejects start() and leaves the state as it is
tokenFailed_keepsStarting ==
    /\ state' = STARTING
    /\ startP' = Rejected(AUTH_FAILED)
    /\ UNCHANGED <<userSig, ws, readyState, doneResolve, donePromise, conn>>

\* the catch block of genUserSig in connect():
\* this.state = IDLE; reject(AUTH_FAILED); return
tokenFailed ==
    /\ state' = IDLE
    /\ startP' = Rejected(AUTH_FAILED)
    /\ UNCHANGED <<userSig, ws, readyState, doneResolve, donePromise, conn>>

\* connect(resolve, reject), for each outcome of the token provider and of the
\* WebSocket constructor ("ok" or "throw").  The new WebSocket replaces the
\* one of an earlier attempt in this.ws; when that one has not emitted "close"
\* yet (start() is accepted again as soon as the "error" handler has run), its
\* "close" handler is still to run on this recognizer.
connect(gen, ctor) ==
    LET vid == IF voiceId = EmptyStr THEN uuidv4 ELSE voiceId
        sig == IF TokenMissing THEN genUserSig(vid, UserSigExpire) ELSE userSig
    IN
    /\ voiceId' = vid
    /\ IF TokenMissing /\ gen = "throw"
       THEN tokenFailed /\ UNCHANGED staleCloses
       ELSE /\ userSig' = sig
            /\ \E now \in SigClock, nonce \in SigNonces :
                  conn' = ConnectRequest(vid, sig, now, nonce)
            /\ donePromise' = "pending"
            /\ doneResolve' = TRUE
            /\ IF ctor = "throw"
               THEN \* start()'s catch: state = IDLE; reject(CONNECT_FAILED)
                    /\ state' = IDLE
                    /\ startP' = Rejected(CONNECT_FAILED)
                    /\ UNCHANGED <<ws, readyState, staleCloses>>
               ELSE /\ staleCloses' = IF readyState \in {"CONNECTING", "OPEN", "CLOSING"}
                                      THEN staleCloses + 1 ELSE staleCloses
                    /\ readyState' = "CONNECTING"
                    /\ ws' = "WebSocket"
                    /\ state' = STARTING
                    /\ startP' = Pending

start ==
    /\ frame' = NoFrame
    /\ cbs' = << >>
    /\ UNCHANGED <<writeTimeout, stopOp, writes, sent, nComplete, fatalSeen>>
    /\ IF StartRejects
       THEN /\ ret' = Return("start", Rejected(ALREADY_STARTED))
            /\ UNCHANGED <<state, ws, doneResolve, donePromise, voiceId, staleCloses, userSig,
                           readyState, startP, conn>>
       ELSE /\ \E gen \in {"ok", "throw"}, ctor \in {"ok", "throw"} : connect(gen, ctor)
            /\ ret' = Return("start", startP')

\* ---- the WebSocket event handlers registered by connect() ----

\* ws.on("open")
onOpen ==
    /\ frame' = NoFrame
    /\ readyState = "CONNECTING"
    /\ readyState' = "OPEN"
    /\ state' = RUNNING
    /\ startP' = Settle(startP, Resolved)
    /\ ret' = NoReturn
    /\ cbs' = << >>
    /\ UNCHANGED <<ws, doneResolve, donePromise, writeTimeout, voiceId, staleCloses, userSig,
                   stopOp, writes, sent, conn, nComplete, fatalSeen>>

\* a "close" handler that reports a failure whatever the state
closeHandler_alwaysFails ==
    /\ cbs' = <<Callback("onFail", NoResponse, READ_FAILED)>>
    /\ releaseDone

\* a "close" handler that reports a failure only to a running session that
\* has not been told of a fatal event
closeHandler_onlyWhenRunning ==
    /\ cbs' = IF state' = RUNNING /\ ~fatalSeen
              THEN <<Callback("onFail", NoResponse, READ_FAILED)>>
              ELSE << >>
    /\ releaseDone

\* the body of the "close" handler
closeHandler ==
    /\ cbs' = IF state' < STOPPING
              THEN <<Callback("onFail", NoResponse, READ_FAILED)>>
              ELSE << >>
    /\ releaseDone

\* an "error" handler that rejects start() and leaves the state as it is
onError_keepsStarting ==
    /\ frame' = NoFrame
    /\ readyState = "CONNECTING"
    /\ startP' = IF state = STARTING
                 THEN Settle(startP, Rejected(CONNECT_FAILED))
                 ELSE startP
    /\ UNCHANGED state
    /\ \E turn \in {"same", "later"} :
          IF turn = "same"
          THEN /\ readyState' = "CLOSED"
               /\ closeHandler
               /\ UNCHANGED staleCloses
          ELSE /\ staleCloses < MaxStaleCloses
               /\ readyState' = "CLOSING"
               /\ cbs' = << >>
               /\ UNCHANGED <<doneResolve, donePromise, staleCloses>>
    /\ ret' = NoReturn
    /\ UNCHANGED <<ws, writeTimeout, voiceId, userSig, stopOp, writes, sent,
                   conn, nComplete, fatalSeen>>

\* ws.on("error"): the handshake fails.  When the request was refused or
\* timed out, WebSocket emits "error" and "close" in the same turn and the
\* close handler runs right after the error handler.  When the server
\* answered the upgrade with headers WebSocket rejects, "close" is emitted in
\* a later turn of the event loop: the socket is CLOSING in between, and what
\* the rejection of start() triggers runs before the close handler.  No more
\* than MaxStaleCloses sockets of earlier attempts owe their "close" at a
\* time.  (An error on an open socket finds state past STARTING: the error
\* handler does nothing and onClose is what remains.)
onError ==
    /\ frame' = NoFrame
    /\ readyState = "CONNECTING"
    /\ IF state = STARTING
       THEN /\ state' = IDLE
            /\ startP' = Settle(startP, Rejected(CONNECT_FAILED))
       ELSE UNCHANGED <<state, startP>>
    /\ \E turn \in {"same", "later"} :
          IF turn = "same"
          THEN /\ readyState' = "CLOSED"
               /\ closeHandler
               /\ UNCHANGED staleCloses
          ELSE /\ staleCloses < MaxStaleCloses
               /\ readyState' = "CLOSING"
               /\ cbs' = << >>
               /\ UNCHANGED <<doneResolve, donePromise, staleCloses>>
    /\ ret' = NoReturn
    /\ UNCHANGED <<ws, writeTimeout, voiceId, userSig, stopOp, writes, sent,
                   conn, nComplete, fatalSeen>>

\* a "close" handler that also moves the session to STOPPED
onClose_stops ==
    /\ frame' = NoFrame
    /\ \/ /\ readyState \in {"OPEN", "CLOSING"}
          /\ readyState' = "CLOSED"
          /\ UNCHANGED staleCloses
       \/ /\ staleCloses > 0
          /\ staleCloses' = staleCloses - 1
          /\ UNCHANGED readyState
    /\ state' = STOPPED
    /\ closeHandler
    /\ ret' = NoReturn
    /\ UNCHANGED <<ws, writeTimeout, voiceId, userSig, startP, stopOp,
                   writes, sent, conn, nComplete, fatalSeen>>

\* ws.on("close"): the socket connect() created last reports its closure,
\* after this side asked or not, or the socket of an earlier attempt does; the
\* handler is the same closure over this recognizer
onClose ==
    /\ frame' = NoFrame
    /\ \/ /\ readyState \in {"OPEN", "CLOSING"}
          /\ readyState' = "CLOSED"
          /\ UNCHANGED staleCloses
       \/ /\ staleCloses > 0
          /\ staleCloses' = staleCloses - 1
          /\ UNCHANGED readyState
    /\ UNCHANGED state
    /\ closeHandler
    /\ ret' = NoReturn
    /\ UNCHANGED <<ws, writeTimeout, voiceId, userSig, startP, stopOp,
                   writes, sent, conn, nComplete, fatalSeen>>

\* dispatchEvent(resp): the callbacks it invokes
dispatchEvent_swapped(resp) ==
    CASE resp.slice = 0 -> <<Callback("onSentenceBegin", resp, 0)>>
      [] resp.slice = 1 -> <<Callback("onSentenceEnd", resp, 0)>>
      [] resp.slice = 2 -> <<Callback("onRecognitionResultChange", resp, 0)>>
      [] OTHER -> IF resp.final = 1 THEN << >>
                  ELSE <<Callback("onRecognitionStart", resp, 0)>>
dispatchEvent(resp) ==
    CASE resp.slice = 0 -> <<Callback("onSentenceBegin", resp, 0)>>
      [] resp.slice = 1 -> <<Callback("onRecognitionResultChange", resp, 0)>>
      [] resp.slice = 2 -> <<Callback("onSentenceEnd", resp, 0)>>
      [] OTHER -> IF resp.final = 1 THEN << >>
                  ELSE <<Callback("onRecognitionStart", resp, 0)>>

\* handleMessage(data)
\* a catch block of JSON.parse that treats the frame as fatal
parseFailed_closes ==
    /\ cbs' = <<Callback("onFail", NoResponse, READ_FAILED)>>
    /\ close
    /\ releaseDone
    /\ UNCHANGED <<nComplete, fatalSeen>>

\* the catch block of JSON.parse: onFail(null, READ_FAILED); return
parseFailed ==
    /\ cbs' = <<Callback("onFail", NoResponse, READ_FAILED)>>
    /\ UNCHANGED <<ws, readyState, doneResolve, donePromise, nComplete, fatalSeen>>

\* a branch for a non-zero code that reports the event and keeps the socket
fatalEvent_keepsHandle(m) ==
    /\ cbs' = <<Callback("onFail", m, m.code)>>
    /\ releaseDone
    /\ fatalSeen' = TRUE
    /\ UNCHANGED <<ws, readyState, nComplete>>

\* if (resp.code !== 0): onFail(resp, new ASRError(resp.code, resp.message));
\* this.close(); release of the completion signal; return
fatalEvent(m) ==
    /\ cbs' = <<Callback("onFail", m, m.code)>>
    /\ close
    /\ releaseDone
    /\ fatalSeen' = TRUE
    /\ UNCHANGED nComplete

handleMessage(m) ==
    IF m.kind = "malformed"
    THEN parseFailed
    ELSE IF m.kind = "jsonnull"
    THEN \* JSON.parse returns null and resp.code throws a TypeError
         /\ cbs' = << >>
         /\ UNCHANGED <<ws, readyState, doneResolve, donePromise, nComplete, fatalSeen>>
    ELSE IF m.code # 0
    THEN fatalEvent(m)
    ELSE IF m.final = 1
    THEN /\ cbs' = dispatchEvent(m) \o <<Callback("onRecognitionComplete", m, 0)>>
         /\ nComplete' = nComplete + 1
         /\ releaseDone
         /\ UNCHANGED <<ws, readyState, fatalSeen>>
    ELSE /\ cbs' = dispatchEvent(m)
         /\ UNCHANGED <<ws, readyState, doneResolve, donePromise, nComplete, fatalSeen>>

\* a message handler that takes a frame but holds its callbacks back while a
\* write() or stop() call is in flight
onMessage_deferredInFlight ==
    /\ readyState \in {"OPEN", "CLOSING"}
    /\ state >= RUNNING
    /\ \E m \in Frames :
          /\ (m.kind = "event" /\ m.code = 0 /\ m.final = 1) => nComplete < MaxFinals
          /\ IF stopOp.pc \in {"sending", "waiting"}
                \/ \E i \in 1..Len(writes) : writes[i].p = Pending
             THEN /\ cbs' = << >>
                  /\ UNCHANGED <<ws, readyState, doneResolve, donePromise,
                                 nComplete, fatalSeen>>
             ELSE handleMessage(m)
          /\ frame' = m
    /\ ret' = NoReturn
    /\ UNCHANGED <<state, writeTimeout, voiceId, staleCloses, userSig, startP, stopOp, writes,
                   sent, conn>>

\* ws.on("message"): an open socket, or one this side has asked to close and
\* whose close handshake has not finished, delivers a frame.  A socket whose
\* handshake failed is CLOSING without having been open and delivers none:
\* the session of a socket that opened is RUNNING or later.
onMessage ==
    /\ readyState \in {"OPEN", "CLOSING"}
    /\ state >= RUNNING
    /\ \E m \in Frames :
          /\ (m.kind = "event" /\ m.code = 0 /\ m.final = 1) => nComplete < MaxFinals
          /\ handleMessage(m)
          /\ frame' = m
    /\ ret' = NoReturn
    /\ UNCHANGED <<state, writeTimeout, voiceId, staleCloses, userSig, startP, stopOp, writes,
                   sent, conn>>

\* ---- write() ----

\* the state guard of write(): the call is rejected
WriteRejects_whileStopping == state < RUNNING
WriteRejects == state # RUNNING

\* the callback WebSocket.send owes: "any" (acknowledgement or error) when the
\* socket is open, "err" when it is not
SendCallback == IF readyState = "OPEN" THEN "any" ELSE "err"

write ==
    /\ frame' = NoFrame
    /\ cbs' = << >>
    /\ UNCHANGED <<state, ws, doneResolve, donePromise, writeTimeout, voiceId, staleCloses,
                   userSig, readyState, startP, stopOp, conn, nComplete, fatalSeen>>
    /\ IF WriteRejects
       THEN /\ ret' = Return("write", Rejected(NOT_STARTED))
            /\ UNCHANGED <<writes, sent>>
       ELSE IF ws = "null"
       THEN /\ ret' = Return("write", Rejected(NOT_STARTED))
            /\ UNCHANGED <<writes, sent>>
       ELSE /\ Len(writes) < MaxWrites
            /\ writes' = Append(writes, [p |-> Pending, cb |-> SendCallback])
            /\ sent' = Append(sent, "audio")
            /\ ret' = Return("write", Pending)

\* a step of an accepted write() call that sends the frame again when the
\* call is rejected
WriteStep_resends(i, w) ==
    /\ frame' = NoFrame
    /\ writes' = [writes EXCEPT ![i] = w]
    /\ sent' = IF w.p.st = "rejected" THEN Append(sent, "audio") ELSE sent
    /\ ret' = NoReturn
    /\ cbs' = << >>
    /\ UNCHANGED <<state, ws, doneResolve, donePromise, writeTimeout, voiceId, staleCloses,
                   userSig, readyState, startP, stopOp, conn, nComplete, fatalSeen>>

\* a step of an accepted write() call: only writes and the outputs change
WriteStep(i, w) ==
    /\ frame' = NoFrame
    /\ writes' = [writes EXCEPT ![i] = w]
    /\ ret' = NoReturn
    /\ cbs' = << >>
    /\ UNCHANGED <<state, ws, doneResolve, donePromise, writeTimeout, voiceId, staleCloses,
                   userSig, readyState, startP, stopOp, sent, conn, nComplete, fatalSeen>>

\* the send callback without an error: clearTimeout(timeout); resolve()
writeAck(i) ==
    /\ i \in 1..Len(writes)
    /\ writes[i].cb = "any"
    /\ WriteStep(i, [cb |-> "done", p |-> Settle(writes[i].p, Resolved)])

\* the send callback with an error: clearTimeout(timeout); reject(WRITE_FAILED)
writeErr(i) ==
    /\ i \in 1..Len(writes)
    /\ writes[i].cb \in {"any", "err"}
    /\ WriteStep(i, [cb |-> "done", p |-> Settle(writes[i].p, Rejected(WRITE_FAILED))])

\* a write timer that never fires
writeTimerFires_never(i) ==
    /\ FALSE
    /\ UNCHANGED sessvars

\* the write timer fires before the send callback: reject(WRITE_FAILED, "write
\* timeout").  The delay of a write timer is not measured: it fires at some
\* time while the callback is owed.  A send callback that comes later finds
\* the promise settled and the timer fired, and changes nothing.
writeTimerFires(i) ==
    /\ i \in 1..Len(writes)
    /\ writes[i].cb \in {"any", "err"}
    /\ WriteStep(i, [cb |-> "done", p |-> Settle(writes[i].p, Rejected(WRITE_FAILED))])

\* ---- stop() ----

\* a guard of stop() that lets a call through once the session has run
StopRejects_onlyBeforeRunning == state < RUNNING

\* the state guard of stop(): the call is rejected
StopRejects == state # RUNNING

\* the state stop() sets before it sends the end signal
StateWhileSending_running == RUNNING
StateWhileSending == STOPPING

\* the state stop() leaves when there is no connection, and after a failed
\* send of the end signal
StateWithoutConnection_stopping == STOPPING
StateWithoutConnection == STOPPED
StateAfterSendFailure_stopping == STOPPING
StateAfterSendFailure == STOPPED

\* whether the wait for the read side has reached its ceiling
CeilingReached_late(age) == age >= CeilingMs + 2 * TickMs
CeilingReached(age) == age >= CeilingMs

\* a wait for the read side that ends at the ceiling only
WaitOver_onlyCeiling == CeilingReached(stopOp.timer)

\* a wait for the read side that is over as soon as it begins
WaitOver_atOnce == TRUE

\* whether the wait for the read side is over
WaitOver_noCeiling == donePromise = "resolved"
WaitOver == donePromise = "resolved" \/ CeilingReached(stopOp.timer)

stop ==
    /\ frame' = NoFrame
    /\ cbs' = << >>
    /\ UNCHANGED <<doneResolve, donePromise, writeTimeout, voiceId, staleCloses, userSig,
                   startP, writes, conn, nComplete, fatalSeen, ws,
                   readyState>>
    /\ IF StopRejects
       THEN /\ ret' = Return("stop", Rejected(NOT_STARTED))
            /\ UNCHANGED <<state, stopOp, sent>>
       ELSE IF ws = "null"
       THEN /\ state' = StateWithoutConnection
            /\ stopOp' = [NoStop EXCEPT !.pc = "settled", !.p = Rejected(NOT_STARTED)]
            /\ ret' = Return("stop", Rejected(NOT_STARTED))
            /\ UNCHANGED sent
       ELSE /\ state' = StateWhileSending
            /\ sent' = Append(sent, "end")
            /\ stopOp' = [pc |-> "sending", p |-> Pending, cb |-> SendCallback,
                          timer |-> 0, timeout |-> writeTimeout, elapsed |-> 0]
            /\ ret' = Return("stop", Pending)

\* the catch block of stop(): this.close(); this.state = STOPPED; throw err
stopSendFailed_noClose ==
    /\ UNCHANGED <<ws, readyState>>
    /\ state' = StateAfterSendFailure
stopSendFailed ==
    /\ close
    /\ state' = StateAfterSendFailure

\* the tail of stop(): this.close(); this.state = STOPPED
stopFinish ==
    /\ close
    /\ state' = STOPPED

\* a step of the stop() call in flight
StopStep ==
    /\ frame' = NoFrame
    /\ ret' = NoReturn
    /\ cbs' = << >>
    /\ UNCHANGED <<doneResolve, donePromise, writeTimeout, voiceId, staleCloses, userSig,
                   startP, writes, sent, conn, nComplete, fatalSeen>>

\* the send callback of the end signal without an error: clearTimeout; the
\* wait for the read side begins (it is skipped when there is no donePromise)
stopSendAck ==
    /\ stopOp.pc = "sending"
    /\ stopOp.cb = "any"
    /\ IF donePromise = "null"
       THEN /\ stopFinish
            /\ stopOp' = [stopOp EXCEPT !.pc = "settled", !.p = Resolved,
                                        !.cb = "done", !.timer = NoTimer]
       ELSE /\ stopOp' = [stopOp EXCEPT !.pc = "waiting", !.cb = "done", !.timer = 0]
            /\ UNCHANGED <<state, ws, readyState>>
    /\ StopStep

\* the send callback of the end signal with an error
stopSendErr ==
    /\ stopOp.pc = "sending"
    /\ stopOp.cb \in {"any", "err"}
    /\ stopSendFailed
    /\ stopOp' = [stopOp EXCEPT !.pc = "settled", !.p = Rejected(WRITE_FAILED),
                                !.cb = "done", !.timer = NoTimer]
    /\ StopStep

\* the timer of the end signal fires: reject(WRITE_FAILED, "send end signal
\* timeout").  A send callback that comes later finds the promise settled and
\* the timer fired, and changes nothing.
stopSendTimerFires ==
    /\ stopOp.pc = "sending"
    /\ stopOp.timer >= stopOp.timeout
    /\ stopSendFailed
    /\ stopOp' = [stopOp EXCEPT !.pc = "settled", !.p = Rejected(WRITE_FAILED),
                                !.cb = "done", !.timer = NoTimer]
    /\ StopStep

\* Promise.race([donePromise, 10 s]) settles: stop() closes and resolves
stopWaitEnds ==
    /\ stopOp.pc = "waiting"
    /\ WaitOver
    /\ stopFinish
    /\ stopOp' = [stopOp EXCEPT !.pc = "settled", !.p = Resolved, !.timer = NoTimer]
    /\ StopStep

\* ---- time ----

StopTimerArmed == stopOp.pc \in {"sending", "waiting"}
StopTimerDue ==
    \/ stopOp.pc = "sending" /\ stopOp.timer >= stopOp.timeout
    \/ stopOp.pc = "waiting" /\ WaitOver

\* TickMs pass while stop() is in flight and none of its timers is due
Tick ==
    /\ frame' = NoFrame
    /\ StopTimerArmed
    /\ ~StopTimerDue
    /\ stopOp.timer < 2 * CeilingMs    \* ages are not counted past this
    /\ stopOp' = [stopOp EXCEPT !.timer = @ + TickMs, !.elapsed = @ + TickMs]
    /\ ret' = NoReturn
    /\ cbs' = << >>
    /\ UNCHANGED <<state, ws, doneResolve, donePromise, writeTimeout, voiceId, staleCloses,
                   userSig, readyState, startP, writes, sent, conn, nComplete, fatalSeen>>

\* ---- the specification of a session ----

WriteIds == 1..MaxWrites

Next ==
    \/ (setWriteTimeout /\ UNCHANGED <<sigvars, credvars, httpvars>>)
    \/ (start /\ UNCHANGED <<sigvars, credvars, httpvars>>)
    \/ (write /\ UNCHANGED <<sigvars, credvars, httpvars>>)
    \/ (stop /\ UNCHANGED <<sigvars, credvars, httpvars>>)
    \/ (onOpen /\ UNCHANGED <<sigvars, credvars, httpvars>>)
    \/ (onError /\ UNCHANGED <<sigvars, credvars, httpvars>>)
    \/ (onMessage /\ UNCHANGED <<sigvars, credvars, httpvars>>)
    \/ (onClose /\ UNCHANGED <<sigvars, credvars, httpvars>>)
    \/ (\E i \in WriteIds : writeAck(i) /\ UNCHANGED <<sigvars, credvars, httpvars>>)
    \/ (\E i \in WriteIds : writeErr(i) /\ UNCHANGED <<sigvars, credvars, httpvars>>)
    \/ (\E i \in WriteIds : writeTimerFires(i) /\ UNCHANGED <<sigvars, credvars, httpvars>>)
    \/ (stopSendAck /\ UNCHANGED <<sigvars, credvars, httpvars>>)
    \/ (stopSendErr /\ UNCHANGED <<sigvars, credvars, httpvars>>)
    \/ (stopSendTimerFires /\ UNCHANGED <<sigvars, credvars, httpvars>>)
    \/ (stopWaitEnds /\ UNCHANGED <<sigvars, credvars, httpvars>>)
    \/ (Tick /\ UNCHANGED <<sigvars, credvars, httpvars>>)

Spec == Init /\ [][Next]_vars

\* ---- a session on which only the timers of stop() are measured ----
\* The calls and the transport events are those of Spec without write():
\* stop() shares no promise and no timer with a write in flight.

StopNext ==
    \/ (setWriteTimeout /\ UNCHANGED <<sigvars, credvars, httpvars>>)
    \/ (start /\ UNCHANGED <<sigvars, credvars, httpvars>>)
    \/ (stop /\ UNCHANGED <<sigvars, credvars, httpvars>>)
    \/ (onOpen /\ UNCHANGED <<sigvars, credvars, httpvars>>)
    \/ (onError /\ UNCHANGED <<sigvars, credvars, httpvars>>)
    \/ (onMessage /\ UNCHANGED <<sigvars, credvars, httpvars>>)
    \/ (onClose /\ UNCHANGED <<sigvars, credvars, httpvars>>)
    \/ (stopSendAck /\ UNCHANGED <<sigvars, credvars, httpvars>>)
    \/ (stopSendErr /\ UNCHANGED <<sigvars, credvars, httpvars>>)
    \/ (stopSendTimerFires /\ UNCHANGED <<sigvars, credvars, httpvars>>)
    \/ (stopWaitEnds /\ UNCHANGED <<sigvars, credvars, httpvars>>)
    \/ (Tick /\ UNCHANGED <<sigvars, credvars, httpvars>>)

\* Timers fire, and time passes while none is due.
StopFairness ==
    /\ WF_vars(Tick /\ UNCHANGED <<sigvars, credvars, httpvars>>)
    /\ WF_vars(stopSendTimerFires /\ UNCHANGED <<sigvars, credvars, httpvars>>)
    /\ WF_vars(stopWaitEnds /\ UNCHANGED <<sigvars, credvars, httpvars>>)

StopFairSpec == Init /\ [][StopNext]_vars /\ StopFairness

\* ---- a session whose write timers fire ----
\* The calls, the transport events and the timers of stop() are those of
\* Spec; a write timer that is armed fires unless its send callback comes
\* first.

WriteFairness ==
    \A i \in WriteIds : WF_vars(writeTimerFires(i) /\ UNCHANGED <<sigvars, credvars, httpvars>>)

WriteFairSpec == Init /\ [][Next]_vars /\ WriteFairness

----------------------------------------------------------------------------
(* Properties of the session                                               *)

\* C1: a write() call made in any state other than Running (Idle, Starting,
\* Stopping, Stopped) returns a promise rejected with NOT_STARTED, hands no
\* frame to the transport and starts no send.
C1_WriteOutsideRunning ==
    [][(write /\ state # RUNNING)
         => /\ ret' = Return("write", Rejected(NOT_STARTED))
            /\ sent' = sent
            /\ writes' = writes]_vars

\* a write() was just rejected with NOT_STARTED while stop() is in flight and
\* the handle is still there
C1_Witness ==
    /\ ret = Return("write", Rejected(NOT_STARTED))
    /\ state = STOPPING
    /\ ws = "WebSocket"

\* C2: a start() call made in any state other than Idle returns a promise
\* rejected with ALREADY_STARTED and changes nothing of the session: not its
\* state, its handle, its completion signal, its connection request, nor the
\* promise of the first start.
C2_StartOnlyFromIdle ==
    [][(start /\ state # IDLE)
         => /\ ret' = Return("start", Rejected(ALREADY_STARTED))
            /\ UNCHANGED <<state, ws, readyState, doneResolve, donePromise,
                           startP, conn, voiceId, userSig>>]_vars

\* a second start() was just rejected while the first is still connecting
C2_Witness ==
    /\ ret = Return("start", Rejected(ALREADY_STARTED))
    /\ state = STARTING
    /\ startP = Pending
    /\ readyState = "CONNECTING"

\* a stop() call has settled: one rejected by the state guard in the latest
\* step, or the accepted one
StopSettled ==
    \/ ret.op = "stop" /\ ret.p.st = "rejected"
    \/ stopOp.pc = "settled"

\* C3 as stated: whenever a stop() call has settled, from whatever state it
\* was called, the session state is Stopped and a write() made after it was
\* rejected with NOT_STARTED.
C3_StoppedAfterAnyStop ==
    StopSettled =>
        /\ state = STOPPED
        /\ ret.op = "write" => ret.p = Rejected(NOT_STARTED)

\* C3 amended: once a stop() call that was made in Running has settled,
\* resolved or rejected, the session state is Stopped, and every write() made
\* after that is rejected with NOT_STARTED and sends nothing.
C3_StoppedAfterAcceptedStop ==
    stopOp.pc = "settled" =>
        /\ state = STOPPED
        /\ ret.op = "write" => ret.p = Rejected(NOT_STARTED)

\* a write() was just rejected after the stop() made in Running resolved
C3_Witness ==
    /\ stopOp.pc = "settled"
    /\ stopOp.p = Resolved
    /\ state = STOPPED
    /\ ret = Return("write", Rejected(NOT_STARTED))

\* C4: under fair timers every stop() call in flight eventually settles,
\* whatever the transport does: no acknowledgement of the end signal, no
\* terminal event and no closure is needed.
C4_StopEventuallySettles ==
    (stopOp.pc \in {"sending", "waiting"}) ~> (stopOp.pc = "settled")

\* stop() resolved at the ceiling: the completion signal is still pending and
\* the transport has not reported closure
C4_Witness ==
    /\ stopOp.pc = "settled"
    /\ stopOp.p = Resolved
    /\ donePromise = "pending"
    /\ readyState = "CLOSING"
    /\ nComplete = 0

\* C5 as stated: measured from the call, stop() settles within the ceiling
\* plus a small delta (one clock step), for every write timeout.
C5_SettlesWithinCeiling ==
    stopOp.pc = "settled" => stopOp.elapsed <= CeilingMs + TickMs

\* C5 amended: measured from the call, stop() settles within the write
\* timeout in force at the call plus the ceiling plus a small delta (one
\* clock step).
C5_SettlesWithinTimeoutPlusCeiling ==
    stopOp.pc = "settled" => stopOp.elapsed <= stopOp.timeout + CeilingMs + TickMs

\* stop() settled after a full default write timeout and a full ceiling
C5_Witness ==
    /\ stopOp.pc = "settled"
    /\ stopOp.timeout = DefaultWriteTimeout
    /\ stopOp.elapsed = DefaultWriteTimeout + CeilingMs

\* the session is over: stopped, and the transport has reported closure
SessionOver == state = STOPPED /\ readyState = "CLOSED"

\* C6 as stated: over the lifetime of a session onRecognitionComplete fires
\* exactly once: never twice, and once by the time the session is over.
C6_CompleteExactlyOnce ==
    /\ nComplete <= 1
    /\ SessionOver => nComplete = 1

\* C7: a stop() call made in Running while the handle is absent returns a
\* promise rejected with NOT_STARTED, sends no frame and leaves the session
\* in Stopped.
C7_StopWithoutConnection ==
    [][(stop /\ state = RUNNING /\ ws = "null")
         => /\ ret' = Return("stop", Rejected(NOT_STARTED))
            /\ stopOp'.p = Rejected(NOT_STARTED)
            /\ sent' = sent
            /\ state' = STOPPED]_vars

\* stop() was just rejected for want of a connection, with no end signal sent
C7_Witness ==
    /\ ret = Return("stop", Rejected(NOT_STARTED))
    /\ stopOp.pc = "settled"
    /\ state = STOPPED
    /\ ws = "null"
    /\ \A i \in 1..Len(sent) : sent[i] # "end"

\* the send of the end signal fails in this step: its callback reports an
\* error, or its timer fires first
EndSignalSendFails == stopSendErr \/ stopSendTimerFires

\* C8: when the send of the end signal of a stop() made in Running fails, by
\* error or by timeout, stop() rejects with WRITE_FAILED at once, without the
\* wait for completion; the socket is closed, the handle dropped and the
\* session left in Stopped.
C8_StopSendFailure ==
    [][EndSignalSendFails
         => /\ stopOp'.pc = "settled"
            /\ stopOp'.p = Rejected(WRITE_FAILED)
            /\ readyState' # "OPEN"
            /\ ws' = "null"
            /\ state' = STOPPED]_vars

\* stop() was rejected with WRITE_FAILED on an open socket: the socket is now
\* closing and nothing released the completion signal
C8_Witness ==
    /\ stopOp.pc = "settled"
    /\ stopOp.p = Rejected(WRITE_FAILED)
    /\ state = STOPPED
    /\ ws = "null"
    /\ readyState = "CLOSING"
    /\ donePromise = "pending"

\* the callbacks that classify an event or report completion
ClassificationCallbacks ==
    {"onRecognitionStart", "onSentenceBegin", "onRecognitionResultChange",
     "onSentenceEnd", "onRecognitionComplete"}

\* the latest step handled an inbound event with a non-zero code
FatalEventHandled == ~fatalSeen /\ fatalSeen'

\* C12 as stated: handling a well-formed event with a non-zero code invokes
\* onFail with the event attached, closes the transport, drops the handle
\* and releases the completion signal; and no step after it invokes a
\* classification or completion callback.
C12_NothingAfterFatalCode ==
    [][/\ FatalEventHandled =>
            /\ Len(cbs') = 1
            /\ cbs'[1].name = "onFail"
            /\ cbs'[1].resp.kind = "event"
            /\ cbs'[1].code = cbs'[1].resp.code /\ cbs'[1].code # 0
            /\ readyState' # "OPEN"
            /\ ws' = "null"
            /\ donePromise' # "pending" /\ ~doneResolve'
       /\ fatalSeen =>
            \A i \in 1..Len(cbs') : cbs'[i].name \notin ClassificationCallbacks]_vars

\* C13: Stopped is terminal: from a state where the session is Stopped no
\* step (a start, write or stop call, or an open, error, message or close
\* event of the transport, or a timer) leads to another session state, and
\* a start() made there is rejected with ALREADY_STARTED.
C13_StoppedIsTerminal ==
    [][state = STOPPED =>
          /\ state' = STOPPED
          /\ start => ret' = Return("start", Rejected(ALREADY_STARTED))]_vars

\* start() was just rejected on a stopped session whose transport has closed
C13_Witness ==
    /\ state = STOPPED
    /\ readyState = "CLOSED"
    /\ stopOp.pc = "settled"
    /\ ret = Return("start", Rejected(ALREADY_STARTED))

\* the names of the callbacks of the latest step, in order
CallbackNames(cs) == [i \in 1..Len(cs) |-> cs[i].name]

\* the classification callback the claim gives an event, by slice kind
ClassifiedAs(m) ==
    IF m.slice = 0 THEN <<"onSentenceBegin">>
    ELSE IF m.slice = 1 THEN <<"onRecognitionResultChange">>
    ELSE IF m.slice = 2 THEN <<"onSentenceEnd">>
    ELSE IF m.final = 0 THEN <<"onRecognitionStart">>
    ELSE << >>

\* C14: when the latest step handled a well-formed event with code 0, the
\* callbacks it invoked are the one its slice kind selects (0
\* onSentenceBegin, 1 onRecognitionResultChange, 2 onSentenceEnd, absent
\* with final = 0 onRecognitionStart, absent with final = 1 none), followed
\* by onRecognitionComplete exactly when final = 1; each is passed the event.
C14_ClassifiedBySliceKind ==
    (cbs # << >> /\ cbs[1].resp.kind = "event" /\ cbs[1].resp.code = 0) =>
        LET m == cbs[1].resp
        IN  /\ CallbackNames(cbs) =
                   ClassifiedAs(m) \o (IF m.final = 1 THEN <<"onRecognitionComplete">>
                                       ELSE << >>)
            /\ \A i \in 1..Len(cbs) : cbs[i].resp = m

\* a sentence-end event marked final was just handled: onSentenceEnd, then
\* onRecognitionComplete
C14_Witness ==
    /\ Len(cbs) = 2
    /\ cbs[1].resp.slice = 2 /\ cbs[1].resp.final = 1
    /\ CallbackNames(cbs) = <<"onSentenceEnd", "onRecognitionComplete">>

\* C15 as stated: every inbound frame the message handler handles invokes at least
\* one listener callback and at most one of onRecognitionStart,
\* onSentenceBegin, onRecognitionResultChange, onSentenceEnd and onFail;
\* onRecognitionComplete is invoked besides, last, exactly when the frame is
\* a well-formed event with code 0 and final = 1.
C15_OneCallbackPerFrame ==
    [][onMessage =>
         LET names == CallbackNames(cbs')
             others == {i \in 1..Len(names) : names[i] # "onRecognitionComplete"}
             terminal == /\ cbs'[1].resp.kind = "event"
                         /\ cbs'[1].resp.code = 0
                         /\ cbs'[1].resp.final = 1
         IN  /\ Len(names) >= 1
             /\ Cardinality(others) <= 1
             /\ others \subseteq {1}
             /\ (names[Len(names)] = "onRecognitionComplete") <=> terminal
             /\ Cardinality({i \in 1..Len(names) : names[i] = "onRecognitionComplete"})
                   <= 1]_vars

\* C20: a start() accepted in IDLE that issues its transport request leaves
\* the session in STARTING with start pending (a token provider or a WebSocket
\* constructor that throws inside the call returns it to IDLE at once, with
\* AuthFailed or ConnectFailed); when the transport opens the state becomes
\* RUNNING and start resolves; when the handshake fails (error or handshake
\* timeout) the state returns to IDLE and start rejects with ConnectFailed,
\* whether the socket reports its closure in that step or later; start
\* resolves only into RUNNING, and once start has settled the session is not
\* in STARTING.
C20_StartSettles ==
    [][ /\ (state = IDLE /\ ret'.op = "start") =>
              \/ /\ state' = STARTING
                 /\ startP' = Pending
                 /\ readyState' = "CONNECTING"
              \/ /\ state' = IDLE
                 /\ startP' \in {Rejected(AUTH_FAILED), Rejected(CONNECT_FAILED)}
                 /\ readyState' = readyState
        /\ (state = STARTING /\ readyState' = "OPEN") =>
              state' = RUNNING /\ startP' = Resolved
        /\ (state = STARTING /\ readyState = "CONNECTING"
               /\ readyState' \in {"CLOSING", "CLOSED"}) =>
              state' = IDLE /\ startP' = Rejected(CONNECT_FAILED)
        /\ (startP' = Resolved /\ startP # Resolved) => state' = RUNNING
        /\ startP'.st \in {"resolved", "rejected"} => state' # STARTING
        /\ state' = STARTING => startP' = Pending
      ]_vars

\* the handshake of an accepted start failed: the session is back in IDLE and
\* start was rejected with ConnectFailed
C20_Witness ==
    /\ state = IDLE
    /\ readyState = "CLOSED"
    /\ ws = "WebSocket"
    /\ startP = Rejected(CONNECT_FAILED)

\* C21: stop() called in a state other than RUNNING (IDLE, STARTING, STOPPING,
\* STOPPED) rejects with NotStarted, sends no end signal, does not close the
\* transport and leaves the state unchanged; a second stop() issued while the
\* first is in flight leaves the first call as it was.
C21_StopOutsideRunning ==
    [][ (state # RUNNING /\ ret'.op = "stop") =>
            /\ ret'.p = Rejected(NOT_STARTED)
            /\ UNCHANGED <<state, sent, ws, readyState, stopOp,
                           doneResolve, donePromise>>
      ]_vars

\* a second stop() was rejected while the first waits for the read side
C21_Witness ==
    /\ ret = Return("stop", Rejected(NOT_STARTED))
    /\ state = STOPPING
    /\ stopOp.pc = "waiting"
    /\ stopOp.p = Pending
    /\ ws = "WebSocket"

\* C22 as stated: the session is never in RUNNING while its transport is
\* closed or closing, or while its transport handle is absent (a session
\* whose transport has failed is in, or on its way to, STOPPED).
C22_NeverRunningWithoutTransport ==
    state = RUNNING => ws # "null" /\ readyState = "OPEN"

\* C23: an inbound frame whose payload cannot be parsed invokes onFail once,
\* with no event and an error of kind ReadFailed, and nothing else; it leaves
\* the state, the transport handle, the transport and the completion signal
\* as they were; an event delivered next is classified by its slice kind.
C23_MalformedFrame ==
    [][ /\ frame'.kind = "malformed" =>
              /\ cbs' = <<Callback("onFail", NoResponse, READ_FAILED)>>
              /\ UNCHANGED <<state, ws, readyState, doneResolve, donePromise>>
        /\ (frame.kind = "malformed" /\ frame'.kind = "event" /\ frame'.code = 0) =>
              CallbackNames(cbs') =
                 ClassifiedAs(frame') \o (IF frame'.final = 1
                                          THEN <<"onRecognitionComplete">>
                                          ELSE << >>)
      ]_vars

\* an unparseable frame was just handled on a running session that still
\* waits for its completion signal
C23_Witness ==
    /\ frame.kind = "malformed"
    /\ state = RUNNING
    /\ ws = "WebSocket"
    /\ readyState = "OPEN"
    /\ donePromise = "pending"
    /\ doneResolve
    /\ cbs = <<Callback("onFail", NoResponse, READ_FAILED)>>

\* C24: when the transport reports closure while the state is below STOPPING,
\* onFail is invoked once, with no event and an error of kind ReadFailed, and
\* the completion signal is released; when closure is reported in STOPPING or
\* STOPPED, the completion signal is released and no callback is invoked.
\* The closure is that of the socket created last or of one of an earlier
\* attempt.
C24_ClosureReported ==
    [][ ((readyState # "CLOSED" /\ readyState' = "CLOSED")
            \/ staleCloses' = staleCloses - 1) =>
            /\ cbs' = IF state < STOPPING
                      THEN <<Callback("onFail", NoResponse, READ_FAILED)>>
                      ELSE << >>
            /\ ~doneResolve'
            /\ donePromise' # "pending"
            /\ donePromise = "pending" => donePromise' = "resolved"
      ]_vars

\* the transport just reported closure while a stop() call waits for the
\* read side: the signal is released and nothing was reported to the listener
C24_Witness ==
    /\ readyState = "CLOSED"
    /\ state = STOPPING
    /\ stopOp.pc = "waiting"
    /\ stopOp.timer = 0
    /\ donePromise = "resolved"
    /\ ~doneResolve
    /\ nComplete = 0
    /\ ~fatalSeen
    /\ cbs = << >>

\* the latest step handled a trigger of the completion signal: a terminal
\* event, an event with a non-zero code, or the closure of a transport (the
\* socket created last, or one of an earlier attempt)
ReleaseTrigger ==
    \/ frame'.kind = "event" /\ (frame'.code # 0 \/ frame'.final = 1)
    \/ readyState # "CLOSED" /\ readyState' = "CLOSED"
    \/ staleCloses' < staleCloses

\* C25: the completion signal of a connection is released at most once: the
\* first terminal event, fatal event or closure releases it and clears the
\* resolver; a later trigger finds the resolver cleared and changes nothing;
\* only a new connection arms a new signal; the end of the wait of stop(), by
\* the ceiling timer or not, releases nothing.
C25_ReleasedAtMostOnce ==
    [][ /\ ReleaseTrigger =>
              /\ ~doneResolve'
              /\ (doneResolve /\ donePromise = "pending") => donePromise' = "resolved"
              /\ ~doneResolve => donePromise' = donePromise
        /\ donePromise' # donePromise =>
              \/ ReleaseTrigger /\ doneResolve /\ donePromise' = "resolved"
              \/ ret'.op = "start" /\ doneResolve' /\ donePromise' = "pending"
        /\ donePromise' = "resolved" => ~doneResolve'
        /\ (stopOp.pc = "waiting" /\ stopOp'.pc = "settled") =>
              UNCHANGED <<donePromise, doneResolve>>
      ]_vars

\* a second terminal event was just handled: the signal had been released by
\* the first and stays released
C25_Witness ==
    /\ frame.kind = "event"
    /\ frame.code = 0
    /\ frame.final = 1
    /\ nComplete = 2
    /\ donePromise = "resolved"
    /\ ~doneResolve

\* the audio frames handed to the transport so far
AudioFrames == SelectSeq(sent, LAMBDA f : f = "audio")

\* C26: each write() accepted in RUNNING hands exactly one binary frame to the
\* transport; when the send reports an error or the write timer fires first,
\* the call rejects with WriteFailed, no frame is sent again and the state is
\* left as it is (RUNNING, unless stop() was called in between); there are as
\* many audio frames as accepted writes.
C26_OneFramePerWrite ==
    [][ /\ (state = RUNNING /\ ws # "null" /\ ret'.op = "write") =>
              /\ sent' = Append(sent, "audio")
              /\ Len(writes') = Len(writes) + 1
              /\ ret'.p = Pending
        /\ \A i \in 1..Len(writes) :
              (writes[i].p = Pending /\ writes'[i].p.st = "rejected") =>
                 /\ writes'[i].p = Rejected(WRITE_FAILED)
                 /\ sent' = sent
                 /\ state' = state
        /\ sent' # sent => ret'.op \in {"write", "stop"}
        /\ Len(AudioFrames') = Len(writes')
      ]_vars

\* a write was rejected with WriteFailed on a running session with an open
\* transport; its frame went out once
C26_Witness ==
    /\ Len(writes) = 1
    /\ writes[1].p = Rejected(WRITE_FAILED)
    /\ state = RUNNING
    /\ readyState = "OPEN"
    /\ sent = <<"audio">>

\* C27: under fair timers every accepted write() eventually settles, even if
\* the transport never calls back: it resolves on acknowledgement, rejects
\* with WriteFailed on a send error and on the write timer; once settled it
\* stays as it settled, also when the acknowledgement comes after the timer.
C27_WriteEventuallySettles ==
    /\ \A i \in WriteIds :
          (Len(writes) >= i /\ writes[i].p = Pending)
             ~> (Len(writes) >= i /\ writes[i].p \in {Resolved, Rejected(WRITE_FAILED)})
    /\ [][ \A i \in 1..Len(writes) :
              /\ writes[i].p # Pending => writes'[i].p = writes[i].p
              /\ writes'[i].p \in {Pending, Resolved, Rejected(WRITE_FAILED)}
         ]_vars

\* a write was rejected while the session was stopping with its transport
\* open, and the call stays rejected
C27_Witness ==
    /\ Len(writes) = 1
    /\ writes[1].p = Rejected(WRITE_FAILED)
    /\ writes[1].cb = "done"
    /\ readyState = "OPEN"
    /\ state = STOPPING

\* C28: the callbacks of an inbound frame are invoked in the step that handles
\* the frame, before the next frame is taken: every callback of a step carries
\* the frame of that step (or no event), a step that handles no frame invokes
\* no callback that carries an event, and an event with code 0 gets its
\* classification callback, then its completion callback, in that step, also
\* while a write() or stop() call is in flight.
C28_CallbacksInFrameOrder ==
    [][ /\ \A i \in 1..Len(cbs') :
              /\ cbs'[i].resp \in {frame', NoResponse}
              /\ cbs'[i].resp = NoResponse => cbs'[i].name = "onFail"
        /\ frame' = NoFrame => \A i \in 1..Len(cbs') : cbs'[i].resp = NoResponse
        /\ (frame'.kind = "event" /\ frame'.code = 0) =>
              CallbackNames(cbs') =
                 ClassifiedAs(frame') \o (IF frame'.final = 1
                                          THEN <<"onRecognitionComplete">>
                                          ELSE << >>)
        /\ (frame'.kind = "event" /\ frame'.code # 0) =>
              CallbackNames(cbs') = <<"onFail">> /\ cbs'[1].resp = frame'
      ]_vars

\* a sentence-end event was just delivered to the listener while a write()
\* call is pending and a stop() call waits for the read side
C28_Witness ==
    /\ frame.kind = "event"
    /\ frame.code = 0
    /\ frame.slice = 2
    /\ frame.final = 0
    /\ CallbackNames(cbs) = <<"onSentenceEnd">>
    /\ cbs[1].resp = frame
    /\ Len(writes) = 1
    /\ writes[1].p = Pending
    /\ stopOp.pc = "waiting"

\* C29 as stated: the transport handle is present only while the transport is
\* open (or opening): it is absent in IDLE, also after a failed start, and it
\* is absent once the transport has closed, whoever closed it.
C29_HandleOnlyWhileOpen ==
    /\ ws # "null" => readyState \in {"CONNECTING", "OPEN"}
    /\ state = IDLE => ws = "null"

\* C30: a stop() whose end signal went out successfully does not settle before
\* the completion signal has been released or the ceiling timer has fired;
\* until then it is pending in STOPPING; when it settles it resolves, the
\* transport has been force-closed, the handle is cleared and the state is
\* STOPPED, in both cases.
C30_StopWaitsForReadSide ==
    [][ /\ stopOp'.pc = "waiting" => stopOp'.p = Pending /\ state' = STOPPING
        /\ (stopOp.pc = "waiting" /\ stopOp'.pc # "waiting") =>
              /\ donePromise = "resolved" \/ stopOp.timer >= CeilingMs
              /\ stopOp'.pc = "settled"
              /\ stopOp'.p = Resolved
              /\ state' = STOPPED
              /\ ws' = "null"
              /\ readyState' \in {"CLOSING", "CLOSED"}
        /\ (stopOp'.p = Resolved /\ stopOp.p # Resolved) => stopOp.pc = "waiting"
      ]_vars

\* stop() resolved as soon as a terminal event released the completion
\* signal, before any time had passed: the transport is closing
C30_Witness ==
    /\ stopOp.pc = "settled"
    /\ stopOp.p = Resolved
    /\ stopOp.elapsed = 0
    /\ donePromise = "resolved"
    /\ nComplete = 1
    /\ state = STOPPED
    /\ ws = "null"
    /\ readyState = "CLOSING"

\* C31: a start() accepted in IDLE that leaves the Credential's token empty
\* (the token derivation failed) rejects with AUTH_FAILED, opens no transport
\* and makes no connection request, and the session is back in IDLE; a
\* start() made in IDLE, also after such a failure, is never rejected with
\* ALREADY_STARTED.
C31_TokenFailureBackToIdle ==
    [][ /\ (ret'.op = "start" /\ state = IDLE /\ userSig' = EmptyStr) =>
              /\ ret'.p = Rejected(AUTH_FAILED)
              /\ startP' = Rejected(AUTH_FAILED)
              /\ state' = IDLE
              /\ ws' = "null"
              /\ readyState' = "NONE"
              /\ conn' = conn
              /\ donePromise' = donePromise
              /\ sent' = sent
        /\ (ret'.op = "start" /\ ret'.p = Rejected(AUTH_FAILED)) =>
              state = IDLE /\ userSig = EmptyStr /\ userSig' = EmptyStr
        /\ (ret'.op = "start" /\ state = IDLE) =>
              ret'.p # Rejected(ALREADY_STARTED)
      ]_vars

\* start() was just rejected because the token could not be derived
C31_Witness ==
    /\ ret = Return("start", Rejected(AUTH_FAILED))
    /\ state = IDLE
    /\ userSig = EmptyStr
    /\ ws = "null"
    /\ conn.sig = NoString

\* C32 as stated: a well-formed inbound event with a non-zero status code is
\* reported to onFail with an error of kind SERVER_ERROR, whatever the code,
\* also when the code is the number of another kind of error (1005).
C32_StatusReportedAsServerError ==
    \A i \in 1..Len(cbs) :
        (cbs[i].name = "onFail" /\ cbs[i].resp.kind = "event") =>
            cbs[i].code = SERVER_ERROR

\* C34: whenever the session is in STOPPED the transport handle is absent:
\* every path of stop() past the state guard (no handle, end signal not sent,
\* completion observed, ceiling reached) has closed and dropped the handle
\* before it sets STOPPED.
C34_StoppedWithoutHandle ==
    state = STOPPED => ws = "null"

\* stop() gave up on the end signal of an open socket: the socket was told to
\* close, the handle is dropped and the state is STOPPED
C34_Witness ==
    /\ state = STOPPED
    /\ ws = "null"
    /\ stopOp.pc = "settled"
    /\ stopOp.p = Rejected(WRITE_FAILED)
    /\ sent = <<"end">>
    /\ readyState = "CLOSING"

\* C35: the session state changes only from IDLE to STARTING (start), from
\* STARTING to RUNNING (the socket opens), from STARTING to IDLE (the
\* handshake fails; a token or constructor failure is back in IDLE within the
\* call), from RUNNING to STOPPING (stop) and from STOPPING to STOPPED (stop;
\* without a handle both assignments happen within the call).  A step that
\* handles an inbound frame, and a step in which a socket reports closure
\* after it had opened or after its "error" handler has run, leave the state
\* as it is.
C35_StateTransitions ==
    [][ /\ state' # state =>
              \/ /\ state = IDLE /\ state' = STARTING
                 /\ ret' = Return("start", Pending)
              \/ /\ state = STARTING /\ state' = RUNNING
                 /\ readyState = "CONNECTING" /\ readyState' = "OPEN"
              \/ /\ state = STARTING /\ state' = IDLE
                 /\ readyState = "CONNECTING"
                 /\ readyState' \in {"CLOSING", "CLOSED"}
                 /\ startP' = Rejected(CONNECT_FAILED)
              \/ /\ state = RUNNING /\ state' = STOPPING
                 /\ ret' = Return("stop", Pending)
              \/ /\ state = STOPPING /\ state' = STOPPED
                 /\ stopOp.pc \in {"sending", "waiting"}
                 /\ stopOp'.pc = "settled"
              \/ /\ state = RUNNING /\ state' = STOPPED
                 /\ ws = "null"
                 /\ ret' = Return("stop", Rejected(NOT_STARTED))
        /\ frame' # NoFrame => state' = state
        /\ (readyState \in {"OPEN", "CLOSING"} /\ readyState' = "CLOSED") =>
              state' = state
        /\ staleCloses' < staleCloses => state' = state
        /\ (ret'.op = "start" /\ ret'.p \in {Rejected(AUTH_FAILED), Rejected(CONNECT_FAILED)}) =>
              state = IDLE /\ state' = IDLE
      ]_vars

\* a fatal event and then the closure of the socket were handled on a running
\* session: the state is still RUNNING
C35_Witness ==
    /\ state = RUNNING
    /\ fatalSeen
    /\ readyState = "CLOSED"
    /\ donePromise = "resolved"
    /\ stopOp.pc = "none"

\* the end signals handed to the transport so far
EndFrames == SelectSeq(sent, LAMBDA f : f = "end")

\* C36: over the lifetime of a session at most one end signal is sent,
\* whatever start, write and stop calls are made: once the session has been
\* in RUNNING it never goes back below the state it is in, and an end
\* signal is sent only by the stop() call that moves RUNNING to STOPPING.
C36_OneEndSignal ==
    /\ [](Len(EndFrames) <= 1)
    /\ [][ /\ state >= RUNNING => state' >= state
           /\ sent' # sent /\ sent'[Len(sent')] = "end" =>
                 /\ sent' = Append(sent, "end")
                 /\ state = RUNNING
                 /\ state' = STOPPING
                 /\ ret' = Return("stop", Pending)
         ]_vars

\* a second stop() was just rejected while the first is waiting for the read
\* side: one end signal has been sent
C36_Witness ==
    /\ ret = Return("stop", Rejected(NOT_STARTED))
    /\ stopOp.pc = "waiting"
    /\ state = STOPPING
    /\ Len(EndFrames) = 1
    /\ startP = Resolved

\* C37: no audio frame is handed to the transport after the end signal: the
\* session is past RUNNING from the step in which stop() sends the end
\* signal, so that every write() made after it, also while stop() is still
\* sending or waiting, is rejected with NOT_STARTED and sends nothing.
C37_NoAudioAfterEnd ==
    /\ [](\A i \in 1..Len(sent) : \A j \in (i + 1)..Len(sent) :
              sent[i] = "end" => sent[j] # "audio")
    /\ [][ /\ Len(EndFrames') > Len(EndFrames) => state' > RUNNING
           /\ (ret'.op = "write" /\ Len(EndFrames) > 0) =>
                 /\ ret'.p = Rejected(NOT_STARTED)
                 /\ sent' = sent
                 /\ writes' = writes
         ]_vars

\* a write() was just rejected while a stop() made after one accepted write
\* is waiting for the read side
C37_Witness ==
    /\ ret = Return("write", Rejected(NOT_STARTED))
    /\ stopOp.pc = "waiting"
    /\ state = STOPPING
    /\ sent = <<"audio", "end">>

\* C38: a fatal status-coded event handled in RUNNING leaves the state
\* RUNNING and the transport handle absent; in that situation the next
\* write() rejects with NOT_STARTED and sends nothing, and the next stop()
\* rejects with NOT_STARTED, sends no end signal and leaves the session in
\* STOPPED.
C38_AfterFatalEvent ==
    /\ []((state = RUNNING /\ ws = "null") => fatalSeen)
    /\ [][ /\ (state = RUNNING /\ frame'.kind = "event" /\ frame'.code # 0) =>
                 state' = RUNNING /\ ws' = "null"
           /\ (state = RUNNING /\ ws = "null" /\ ret'.op = "write") =>
                 /\ ret'.p = Rejected(NOT_STARTED)
                 /\ sent' = sent
                 /\ writes' = writes
                 /\ state' = RUNNING
           /\ (state = RUNNING /\ ws = "null" /\ ret'.op = "stop") =>
                 /\ ret'.p = Rejected(NOT_STARTED)
                 /\ stopOp'.p = Rejected(NOT_STARTED)
                 /\ sent' = sent
                 /\ state' = STOPPED
         ]_vars

\* the stop() made after a fatal event was just rejected: no end signal
\* went out and the session is in STOPPED
C38_Witness ==
    /\ fatalSeen
    /\ ret = Return("stop", Rejected(NOT_STARTED))
    /\ stopOp.pc = "settled"
    /\ state = STOPPED
    /\ Len(EndFrames) = 0
    /\ ws = "null"

\* a socket reports its closure in this step: the one created last, or one
\* of an earlier attempt
ClosureReported ==
    \/ readyState # "CLOSED" /\ readyState' = "CLOSED"
    \/ staleCloses' < staleCloses

\* C39: every closure the socket reports while the state is below STOPPING
\* invokes onFail once with no event and READ_FAILED, whoever caused it:
\* also the closure that follows the session's own close() after a fatal
\* event, which has been reported to onFail already, and the closure of a
\* failed handshake, by which start() has rejected with CONNECT_FAILED and
\* the state is IDLE (or STARTING again, when start() was called anew before
\* that closure).
C39_EveryEarlyClosureReported ==
    [][ /\ (ClosureReported /\ state' < STOPPING) =>
              cbs' = <<Callback("onFail", NoResponse, READ_FAILED)>>
        /\ (readyState # "CLOSED" /\ readyState' = "CLOSED" /\ fatalSeen
               /\ state = RUNNING) =>
              /\ readyState = "CLOSING"
              /\ ws = "null"
              /\ cbs' = <<Callback("onFail", NoResponse, READ_FAILED)>>
        /\ (ClosureReported /\ readyState = "CONNECTING" /\ readyState' = "CLOSED") =>
              /\ state' = IDLE
              /\ startP' = Rejected(CONNECT_FAILED)
              /\ cbs' = <<Callback("onFail", NoResponse, READ_FAILED)>>
        /\ (ClosureReported /\ state = IDLE) =>
              /\ state' = IDLE
              /\ startP'.st = "rejected"
              /\ cbs' = <<Callback("onFail", NoResponse, READ_FAILED)>>
      ]_vars

\* the closure that follows a fatal event was just reported to onFail, the
\* second failure callback of that event
C39_Witness ==
    /\ fatalSeen
    /\ state = RUNNING
    /\ readyState = "CLOSED"
    /\ cbs = <<Callback("onFail", NoResponse, READ_FAILED)>>
    /\ ws = "null"

\* C40: a stop() whose end signal was acknowledged while the completion
\* signal is already released (a terminal event or the closure was seen
\* before) settles with no time passing in its wait: it resolves in STOPPED
\* with the handle dropped.  A stop() made in RUNNING on a socket that has
\* already closed hands the end signal to a socket that can only fail it, and
\* rejects with WRITE_FAILED in STOPPED.
C40_StopAfterRelease ==
    [][ /\ (stopOp.pc = "sending" /\ stopOp'.pc = "waiting") =>
              stopOp'.timer = 0 /\ stopOp'.elapsed = stopOp.elapsed
        /\ (stopOp.pc = "waiting" /\ donePromise = "resolved" /\ stopOp' # stopOp) =>
              /\ stopOp'.pc = "settled"
              /\ stopOp'.p = Resolved
              /\ stopOp'.elapsed = stopOp.elapsed
              /\ state' = STOPPED
              /\ ws' = "null"
        /\ (ret'.op = "stop" /\ state = RUNNING /\ ws # "null" /\ readyState = "CLOSED") =>
              /\ stopOp'.pc = "sending"
              /\ stopOp'.cb = "err"
        /\ (stopOp.pc = "sending" /\ stopOp.cb = "err" /\ stopOp'.pc # "sending") =>
              /\ stopOp'.pc = "settled"
              /\ stopOp'.p = Rejected(WRITE_FAILED)
              /\ state' = STOPPED
              /\ ws' = "null"
      ]_vars

\* a stop() made after the peer had closed the connection of a running
\* session was rejected at once with WRITE_FAILED
C40_Witness ==
    /\ stopOp.pc = "settled"
    /\ stopOp.p = Rejected(WRITE_FAILED)
    /\ stopOp.elapsed = 0
    /\ readyState = "CLOSED"
    /\ donePromise = "resolved"
    /\ ~fatalSeen
    /\ state = STOPPED
    /\ ws = "null"

----------------------------------------------------------------------------
(* Specification of the query-string builder: Init draws the options, the  *)
(* clock and the nonce; the actions call the two builders.                 *)

SigInit ==
    /\ \E opts \in SigOptions, now \in SigClock, nonce \in SigNonces :
           sp = SignatureParams(opts, now, nonce)
    /\ qs = NoString
    /\ qss = NoString
    /\ qtok = NoString
    /\ SessInit
    /\ CredInit
    /\ HttpInit

SigBuild ==
    /\ qs' = buildQueryString(sp)
    /\ UNCHANGED <<sp, qss, qtok, sessvars, credvars, httpvars>>

SigBuildSigned ==
    \E tok \in SigTokens :
        /\ qss' = buildQueryStringWithSignature(sp, tok)
        /\ qtok' = tok
        /\ UNCHANGED <<sp, qs, sessvars, credvars, httpvars>>

SigNext == SigBuild \/ SigBuildSigned

SigSpec == SigInit /\ [][SigNext]_vars

----------------------------------------------------------------------------
(* Properties of the query-string builder                                  *)

\* the keys of a list of k=v parts
KeysOf(parts) == [i \in 1..Len(parts) |-> PartKey(parts[i])]

\* C9: the parts of the signed query string other than `signature` are, in
\* order, the parts of the unsigned one (same keys, same values); the
\* unsigned one has no `signature` key; and in both the keys other than
\* `signature` are in ascending order.
C9_SignedVsUnsigned ==
    /\ qs # NoString =>
          /\ ~HasKey(qs, k_signature)
          /\ Ascending(QueryKeys(qs))
    /\ qss # NoString =>
          /\ CountKey(qss, k_signature) = 1
          /\ Ascending(KeysOf(WithoutKey(QueryParts(qss), k_signature)))
    /\ (qs # NoString /\ qss # NoString) =>
          WithoutKey(QueryParts(qss), k_signature) = QueryParts(qs)

\* both forms were built for a parameter set with optional keys on both sides
\* of `signature`
C9_Witness ==
    /\ qs # NoString
    /\ qss # NoString
    /\ HasKey(qss, k_hotword_id)
    /\ HasKey(qss, k_word_info)
    /\ ValueOfKey(qss, k_signature) = encodeURIComponent(qtok)

\* the optional fields: the field, its key, and whether it is a number
OptionalFields ==
    { [f |-> "hotwordId", key |-> k_hotword_id, num |-> FALSE],
      [f |-> "customizationId", key |-> k_customization_id, num |-> FALSE],
      [f |-> "filterDirty", key |-> k_filter_dirty, num |-> TRUE],
      [f |-> "filterModal", key |-> k_filter_modal, num |-> TRUE],
      [f |-> "filterPunc", key |-> k_filter_punc, num |-> TRUE],
      [f |-> "convertNumMode", key |-> k_convert_num_mode, num |-> TRUE],
      [f |-> "wordInfo", key |-> k_word_info, num |-> TRUE],
      [f |-> "vadSilenceTime", key |-> k_vad_silence_time, num |-> TRUE],
      [f |-> "maxSpeakTime", key |-> k_max_speak_time, num |-> TRUE] }

\* the text of a field's value as it is serialized
FieldText(o) == IF o.num THEN String(sp[o.f]) ELSE sp[o.f]

\* an optional field is absent from q at its default, and present once with
\* its value (percent-encoded) otherwise
SerializedByDefaultRule(o, q) ==
    IF sp[o.f] = Defaults[o.f]
    THEN ~HasKey(q, o.key)
    ELSE /\ CountKey(q, o.key) = 1
         /\ ValueOfKey(q, o.key) = encodeURIComponent(FieldText(o))

\* C10 as stated: every optional field at its default value has no key in
\* the serialized query string, and every optional field set to another
\* value has its key there with exactly that value.
C10_OptionalFieldsByDefault ==
    qs # NoString => \A o \in OptionalFields : SerializedByDefaultRule(o, qs)

\* the required keys, each with the text of the value the parameters hold
RequiredEntries ==
    { <<k_secretid, String(sp.appId)>>,
      <<k_timestamp, String(sp.timestamp)>>,
      <<k_expired, String(sp.expired)>>,
      <<k_nonce, String(sp.nonce)>>,
      <<k_engine_model_type, sp.engineModelType>>,
      <<k_voice_id, sp.voiceId>>,
      <<k_voice_format, String(sp.voiceFormat)>>,
      <<k_needvad, String(sp.needVad)>> }

\* q has every required key exactly once, with its value (percent-encoded)
HasRequiredEntries(q) ==
    LET parts == QueryParts(q)
        keys == KeysOf(parts)
    IN  \A r \in RequiredEntries :
           /\ Cardinality({i \in 1..Len(keys) : keys[i] = r[1]}) = 1
           /\ \E i \in 1..Len(keys) :
                  /\ keys[i] = r[1]
                  /\ PartValue(parts[i]) = encodeURIComponent(r[2])

\* C11: for every parameter set, needVad = 0 and voiceFormat = 0 included,
\* both query strings hold each required key (secretid, timestamp, expired,
\* nonce, engine_model_type, voice_id, voice_format, needvad) exactly once
\* with the value of the parameters; secretid is the account id given, and
\* expired is timestamp + 86400.
C11_RequiredKeys ==
    /\ sp.appId = 1300403317
    /\ sp.expired = sp.timestamp + 86400
    /\ qs # NoString => HasRequiredEntries(qs)
    /\ qss # NoString => HasRequiredEntries(qss)

\* the unsigned string was built for parameters with needVad = 0 and
\* voiceFormat = 0, and holds both keys
C11_Witness ==
    /\ qs # NoString
    /\ sp.needVad = 0
    /\ sp.voiceFormat = 0
    /\ ValueOfKey(qs, k_needvad) = <<48>>
    /\ ValueOfKey(qs, k_voice_format) = <<48>>

\* C16 as stated: signature is the last key of the signed query string.
C16_SignatureLast ==
    qss # NoString =>
        LET keys == QueryKeys(qss) IN keys[Len(keys)] = k_signature

\* C16 amended: signature is sorted with the other keys: the keys of the
\* signed query string, signature included, are in ascending order, and
\* signature appears once, right after secretid and right before timestamp.
C16_SignatureSorted ==
    qss # NoString =>
        LET keys == QueryKeys(qss)
        IN  /\ Ascending(keys)
            /\ \E i \in 2..(Len(keys) - 1) :
                   /\ keys[i] = k_signature
                   /\ keys[i - 1] = k_secretid
                   /\ keys[i + 1] = k_timestamp
            /\ Cardinality({i \in 1..Len(keys) : keys[i] = k_signature}) = 1

\* a signed query string was built whose last key is word_info, four keys
\* after signature
C16_Witness ==
    /\ qss # NoString
    /\ LET keys == QueryKeys(qss)
       IN  /\ keys[Len(keys)] = k_word_info
           /\ Len(keys) >= 5
           /\ keys[Len(keys) - 4] = k_signature

\* ---------------------------------------------------------------------------
\* Several sessions on one Credential.  Each session runs start()/connect()
\* as above up to the WebSocket request; the handshake of a session may then
\* fail, which returns the session to IDLE, from where it may be started again.
\* ---------------------------------------------------------------------------

\* uuidv4() of session i: distinct sessions draw distinct identifiers
uuidOf(i) == uuidv4 \o String(i)

\* the sessions that hold a connection request
Connected(i) == sessions[i].state = STARTING

\* credential.setUserSig(tok): this.userSig = tok, whatever the Credential
\* holds and whatever its sessions are doing
setUserSig(tok) ==
    /\ userSig' = tok
    /\ UNCHANGED <<sessions, genCalls, tokenWrites>>

\* setVoiceId(id) on session i
sessionSetVoiceId(i, id) ==
    /\ sessions' = [sessions EXCEPT ![i] = [@ EXCEPT !.voiceId = id]]
    /\ UNCHANGED <<userSig, genCalls, tokenWrites>>

\* the voice ids and the tokens the sessions can meet, and the request that
\* connect() builds from each of them: ConnectRequest, tabulated
CredVoiceIds == {uuidOf(i) : i \in SessionIds} \cup {s_v1}
CredSigs ==
    (CredTokens \ {EmptyStr}) \cup {genUserSig(v, UserSigExpire) : v \in CredVoiceIds}
CredRequests ==
    [v \in CredVoiceIds, t \in CredSigs, now \in SigClock |->
        ConnectRequest(v, t, now, NonceRange)]

\* start() of session i accepted in IDLE, and its connect() up to the return of
\* new WebSocket, for each outcome of the token provider and of the WebSocket
\* constructor ("ok" or "throw")
sessionStart(i) ==
    LET self == sessions[i]
        vid == IF self.voiceId = EmptyStr THEN uuidOf(i) ELSE self.voiceId
        sig == IF TokenMissing THEN genUserSig(vid, UserSigExpire) ELSE userSig
    IN
    /\ self.state = IDLE
    /\ TokenMissing => genCalls < MaxGenCalls
    /\ genCalls' = IF TokenMissing THEN genCalls + 1 ELSE genCalls
    /\ \E gen \in (IF TokenMissing THEN {"ok", "throw"} ELSE {"unused"}),
          ctor \in {"ok", "throw"} :
          IF gen = "throw"
          THEN \* catch: state = IDLE; reject(AUTH_FAILED); return
               /\ sessions' = [sessions EXCEPT ![i] =
                      [@ EXCEPT !.voiceId = vid, !.startP = Rejected(AUTH_FAILED)]]
               /\ UNCHANGED <<userSig, tokenWrites>>
          ELSE /\ userSig' = sig
               /\ tokenWrites' = IF TokenMissing THEN tokenWrites + 1 ELSE tokenWrites
               /\ \E now \in SigClock :
                     sessions' = [sessions EXCEPT ![i] =
                         IF ctor = "throw"
                         THEN \* start()'s catch: state = IDLE; reject(CONNECT_FAILED)
                              [state |-> IDLE, voiceId |-> vid,
                               startP |-> Rejected(CONNECT_FAILED),
                               conn |-> CredRequests[vid, sig, now]]
                         ELSE [state |-> STARTING, voiceId |-> vid, startP |-> Pending,
                               conn |-> CredRequests[vid, sig, now]]]

\* the "error" handler of session i during the handshake
sessionError(i) ==
    /\ Connected(i)
    /\ sessions' = [sessions EXCEPT ![i] =
           [@ EXCEPT !.state = IDLE, !.startP = Rejected(CONNECT_FAILED)]]
    /\ UNCHANGED <<userSig, genCalls, tokenWrites>>

\* the fields of the single session of Spec, which these sessions leave alone
ownvars == <<state, ws, doneResolve, donePromise, writeTimeout, voiceId, readyState,
             staleCloses, startP, stopOp, writes, sent, conn, ret, cbs, nComplete, fatalSeen,
             frame>>

CredNext ==
    \/ (\E tok \in CredTokens : setUserSig(tok))
          /\ UNCHANGED <<sigvars, ownvars, httpvars>>
    \/ (\E i \in SessionIds : sessionSetVoiceId(i, s_v1))
          /\ UNCHANGED <<sigvars, ownvars, httpvars>>
    \/ (\E i \in SessionIds : sessionStart(i))
          /\ UNCHANGED <<sigvars, ownvars, httpvars>>
    \/ (\E i \in SessionIds : sessionError(i))
          /\ UNCHANGED <<sigvars, ownvars, httpvars>>

CredSpec == Init /\ [][CredNext]_vars

\* C17 as stated: over all sessions of a Credential the token provider is
\* invoked at most once and the cached token is written at most once.
C17_ProviderInvokedOnce == genCalls <= 1 /\ tokenWrites <= 1

\* C17: the provider is asked only by a start that finds the token empty, once
\* by that start, and a derived token is stored only by such a start, when the
\* provider call succeeds.  A provider call that throws stores nothing and
\* rejects that start with AUTH_FAILED, the session being IDLE again, so that a
\* later start asks the provider again.  Once the Credential holds a token,
\* whether derived or given to setUserSig, no start invokes the provider or
\* changes the token: only setUserSig replaces or clears it, and after a clear
\* the next start derives and stores a token anew.  Every start that gets as
\* far as its request, whether the WebSocket is then created or its constructor
\* throws, builds the request with the token the Credential holds at that
\* moment, both as its signature field and as its token header, and requests
\* built earlier keep theirs.
C17_TokenDerivedWhenEmpty ==
    [][ /\ tokenWrites' # tokenWrites =>
              /\ userSig = EmptyStr /\ userSig' # EmptyStr
              /\ tokenWrites' = tokenWrites + 1
              /\ genCalls' = genCalls + 1
        /\ genCalls' # genCalls => userSig = EmptyStr /\ genCalls' = genCalls + 1
        /\ genCalls' # genCalls /\ tokenWrites' = tokenWrites =>
              /\ userSig' = EmptyStr
              /\ \E i \in SessionIds :
                    /\ sessions'[i].state = IDLE
                    /\ sessions'[i].startP = Rejected(AUTH_FAILED)
                    /\ sessions'[i].conn = sessions[i].conn
        /\ userSig # EmptyStr /\ userSig' # userSig =>
              UNCHANGED <<sessions, genCalls, tokenWrites>>
        /\ \A i \in SessionIds :
              sessions'[i].conn # sessions[i].conn =>
                 /\ userSig' # EmptyStr
                 /\ sessions'[i].conn.hdr = userSig'
                 /\ sessions'[i].conn.sig = encodeURIComponent(userSig')
                 /\ \A j \in SessionIds \ {i} : sessions'[j].conn = sessions[j].conn
      ]_vars

\* the first session derives a token and holds a request with it; the token
\* is then cleared through setUserSig, the second session derives and stores a
\* token of its own, and each request carries the token of its start
C17_Witness ==
    /\ \A i \in SessionIds : Connected(i)
    /\ genCalls = 2
    /\ tokenWrites = 2
    /\ sessions[1].conn.hdr = genUserSig(uuidOf(1), UserSigExpire)
    /\ sessions[2].conn.hdr = genUserSig(uuidOf(2), UserSigExpire)
    /\ userSig = sessions[2].conn.hdr
    /\ sessions[2].conn.sig = encodeURIComponent(userSig)


\* ---------------------------------------------------------------------------
\* The HTTP recognizers.  A Buffer is modelled by its length, and the base64
\* text of a Buffer by the length of that text; every other string is the
\* sequence of its code units.
\* ---------------------------------------------------------------------------

s_url == <<104, 116, 116, 112>>   \* "http"
s_pcm == <<112, 99, 109>>         \* "pcm"
s_task == <<55>>                  \* "7"

FileSourceType == [URL |-> 0, DATA |-> 1]
SourceType == [URL |-> 0, DATA |-> 1]

FileDataLimit == 5 * 1024 * 1024
SentenceDataLimit == 3 * 1024 * 1024

\* a Buffer argument: null/undefined, or a Buffer of n bytes
NullBuffer == [null |-> TRUE, length |-> 0]
Buffer(n) == [null |-> FALSE, length |-> n]

\* data.toString("base64"): four characters for every three bytes begun
toStringBase64(buf) == 4 * ((buf.length + 2) \div 3)

\* !data || data.length === 0
BufferEmpty(buf) == buf.null \/ buf.length = 0

\* a size test that also turns away a Buffer of exactly the limit
BufferTooLong_inclusive(buf, limit) == buf.length >= limit

\* data.length > limit
BufferTooLong(buf, limit) == buf.length > limit

\* !x for an optional string field, and for base64 text given by its length
FalsyStr(x) == ~x.given \/ x.v = EmptyStr
FalsyData(x) == ~x.given \/ x.v = 0

\* errors: an ASRError, no error, and the TypeError of a property access on null
ASRError(code, message) == [code |-> code, message |-> message]
NoError == [code |-> 0, message |-> "none"]
TypeError == [code |-> 0, message |-> "TypeError"]

\* the promise of a call is pending: its request is in flight
Unsettled == [code |-> 0, message |-> "pending"]
\* the promise of a call is pending: fetch has resolved with the headers of the
\* answer and the call awaits resp.text()
Reading == [code |-> 0, message |-> "reading"]

\* the promise a call returned (Unsettled while it is pending, the error it was
\* rejected with, NoError when it resolved), whether the token provider was
\* asked, and whether an HTTP request was issued
Outcome(err, derived, http) == [error |-> err, derived |-> derived, http |-> http]
Throws(err) == Outcome(err, FALSE, FALSE)

\* what the network and the server can answer to a request
\* ("apiErrorUnprintable": a 200 answer with a Response.Error whose Code,
\* Message or RequestId has no string form, as {"toString": 1, "valueOf": 1};
\* "badList": a 200 answer that passes every check, with a list field that is
\* not a list of objects)
HttpReplies == {"network", "status", "badjson", "noResponse", "apiError",
                "apiErrorUnprintable", "noData", "badList", "ok"}

\* doRequest(path, body) of FileRecognizer, and the same steps inside
\* SentenceRecognizer.recognize, up to `await fetch(...)`: derive a token when
\* the Credential has none, build the request and POST it.  The token is a
\* local of the call: nothing is stored on the Credential.
doRequest(tok, gen) ==
    IF tok = EmptyStr /\ gen = "throw"
    THEN Outcome(ASRError(AUTH_FAILED, "generate user sig failed"), TRUE, FALSE)
    ELSE Outcome(Unsettled, tok = EmptyStr, TRUE)

\* the rest of doRequest, run when fetch settles on the pending call r: a
\* request that failed or was aborted, the status test, JSON.parse
fetchSettles(r, net) ==
    [r EXCEPT !.error =
        CASE net = "network" -> ASRError(CONNECT_FAILED, "http request failed")
          [] net = "status"  -> ASRError(SERVER_ERROR, "http status")
          [] net = "badjson" -> ASRError(READ_FAILED, "unmarshal response failed")
          [] OTHER           -> NoError]

\* the checks on the parsed body that follow doRequest
CheckResponse(r, net, noDataMessage) ==
    IF r.error # NoError THEN r
    ELSE CASE net = "noResponse" ->
                 [r EXCEPT !.error = ASRError(SERVER_ERROR, "empty response from server")]
           [] net = "apiError" ->
                 [r EXCEPT !.error = ASRError(SERVER_ERROR, "server error")]
           [] net = "apiErrorUnprintable" ->
                 \* the template literal of the message throws before the ASRError
                 \* is built
                 [r EXCEPT !.error = TypeError]
           [] net = "noData" /\ noDataMessage # "none" ->
                 [r EXCEPT !.error = ASRError(SERVER_ERROR, noDataMessage)]
           [] OTHER -> r

\* parseTaskStatus(data), on the answer of a call r that passed the checks:
\* (data.ResultDetail || []).map(...) and (sd.Words || []).map(...) run outside
\* any try, so that a list field that is not a list of objects throws a
\* TypeError
parseTaskStatus(r, net) ==
    IF r.error = NoError /\ net = "badList" THEN [r EXCEPT !.error = TypeError] ELSE r

\* parseResult(data) of SentenceRecognizer: (data.WordList || []).map(...),
\* likewise
parseResult(r, net) ==
    IF r.error = NoError /\ net = "badList" THEN [r EXCEPT !.error = TypeError] ELSE r

\* ---- FileRecognizer ----

NullRequest == [null |-> TRUE]

validateCreateRequest(req) ==
    IF req.null
    THEN ASRError(INVALID_PARAM, "request is null")
    ELSE IF req.engineModelType = EmptyStr
    THEN ASRError(INVALID_PARAM, "engineModelType is required")
    ELSE IF req.channelNum <= 0
    THEN ASRError(INVALID_PARAM, "channelNum must be positive")
    ELSE IF req.sourceType = FileSourceType.URL /\ FalsyStr(req.url)
    THEN ASRError(INVALID_PARAM, "url is required when sourceType=0")
    ELSE IF req.sourceType = FileSourceType.DATA /\ FalsyData(req.data)
    THEN ASRError(INVALID_PARAM, "data is required when sourceType=1")
    ELSE NoError

createTask(req, tok, gen) ==
    LET v == validateCreateRequest(req) IN
    IF v # NoError THEN Throws(v)
    ELSE doRequest(tok, gen)

createTaskFromData(data, engineModelType, tok, gen) ==
    IF BufferEmpty(data)
    THEN Throws(ASRError(INVALID_PARAM, "audio data is empty"))
    ELSE IF BufferTooLong(data, FileDataLimit)
    THEN Throws(ASRError(INVALID_PARAM, "audio data exceeds 5MB limit"))
    ELSE createTask([null |-> FALSE, engineModelType |-> engineModelType,
                     channelNum |-> 1, resTextFormat |-> 1,
                     sourceType |-> FileSourceType.DATA, url |-> Undef,
                     data |-> Given(toStringBase64(data))],
                    tok, gen)

createTaskFromURL(audioURL, engineModelType, tok, gen) ==
    IF audioURL = EmptyStr
    THEN Throws(ASRError(INVALID_PARAM, "audio URL is empty"))
    ELSE createTask([null |-> FALSE, engineModelType |-> engineModelType,
                     channelNum |-> 1, resTextFormat |-> 1,
                     sourceType |-> FileSourceType.URL, url |-> Given(audioURL),
                     data |-> Undef],
                    tok, gen)

createTaskFromDataWithOptions(rawData, req, tok, gen) ==
    IF BufferEmpty(rawData)
    THEN Throws(ASRError(INVALID_PARAM, "audio data is empty"))
    ELSE IF BufferTooLong(rawData, FileDataLimit)
    THEN Throws(ASRError(INVALID_PARAM, "audio data exceeds 5MB limit"))
    ELSE IF req.null
    THEN Throws(TypeError)
    ELSE createTask([req EXCEPT !.sourceType = FileSourceType.DATA,
                                !.data = Given(toStringBase64(rawData))],
                    tok, gen)

describeTaskStatus(recTaskId, tok, gen) ==
    IF recTaskId = EmptyStr
    THEN Throws(ASRError(INVALID_PARAM, "recTaskId is empty"))
    ELSE doRequest(tok, gen)

\* ---- FileRecognizer.waitForResult: the polling loop ----

TaskStatusCode == [WAITING |-> 0, RUNNING |-> 1, SUCCESS |-> 2, FAILED |-> 3]

\* waitForResult(recTaskId): waitForResultWithInterval(recTaskId, 1000, 600000)
DefaultPollInterval == 1000
DefaultPollTimeout == 600000

\* a deadline test that also gives up at the deadline itself
DeadlinePassed_inclusive(now, deadline) == now >= deadline

\* Date.now() > deadline
DeadlinePassed(now, deadline) == now > deadline

\* the top of the loop, in the wait w: describeTaskStatus(recTaskId) is called
\* and returned r.  The wait stays pending on a request in flight; a call that
\* threw before its request rejects the wait with that error.
pollAsks(w, r) ==
    IF r.error = Unsettled
    THEN [w EXCEPT !.pc = "polling", !.polls = @ + 1]
    ELSE [w EXCEPT !.pc = "settled", !.polls = @ + 1, !.status = NoStatus,
                   !.error = r.error, !.p = Rejected(r.error.code)]

\* waitForResultWithInterval(recTaskId, intervalMs, timeoutMs) up to the await
\* of its first poll: const deadline = Date.now() + timeoutMs, then the call
\* of describeTaskStatus, which returned r
waitForResultWithInterval(op, recTaskId, intervalMs, timeoutMs, r) ==
    pollAsks([NoPoll EXCEPT !.op = op, !.id = recTaskId,
                            !.interval = intervalMs, !.timeout = timeoutMs,
                            !.now = poll.now, !.deadline = poll.now + timeoutMs,
                            !.p = Pending],
             r)

\* the rest of a turn of the loop, from the answer r of describeTaskStatus
\* (status st when it resolved) read at time t, to the return, the throw or
\* the sleep.  The messages of the two errors the loop throws are template
\* literals over fields of the answer (errorMsg and recTaskId, statusStr): msg
\* is "throws" when such a field has no string form, and the TypeError then
\* takes the place of the ASRError.
pollTurn(r, st, t, msg) ==
    LET seen == [poll EXCEPT !.now = t] IN
    IF r.error # NoError
    THEN [seen EXCEPT !.pc = "settled", !.status = NoStatus, !.error = r.error,
                      !.p = Rejected(r.error.code)]
    ELSE IF st = TaskStatusCode.SUCCESS
    THEN [seen EXCEPT !.pc = "settled", !.status = st, !.p = Resolved]
    ELSE IF st = TaskStatusCode.FAILED
    THEN IF msg = "throws"
         THEN [seen EXCEPT !.pc = "settled", !.status = st, !.error = TypeError,
                           !.p = Rejected(TypeError.code)]
         ELSE [seen EXCEPT !.pc = "settled", !.status = st,
                           !.error = ASRError(SERVER_ERROR, "task failed"),
                           !.p = Rejected(SERVER_ERROR)]
    ELSE IF DeadlinePassed(t, poll.deadline)
    THEN IF msg = "throws"
         THEN [seen EXCEPT !.pc = "settled", !.status = st, !.error = TypeError,
                           !.p = Rejected(TypeError.code)]
         ELSE [seen EXCEPT !.pc = "settled", !.status = st,
                           !.error = ASRError(TIMEOUT, "task not completed"),
                           !.p = Rejected(TIMEOUT)]
    ELSE [seen EXCEPT !.pc = "sleeping", !.status = st]

\* ---- SentenceRecognizer ----

\* validateRequest without the test of voiceFormat
validateRequest_noVoiceFormat(req) ==
    IF req.null
    THEN ASRError(INVALID_PARAM, "request is null")
    ELSE IF req.engServiceType = EmptyStr
    THEN ASRError(INVALID_PARAM, "engServiceType is required")
    ELSE IF req.sourceType = SourceType.URL /\ FalsyStr(req.url)
    THEN ASRError(INVALID_PARAM, "url is required when sourceType=0")
    ELSE IF req.sourceType = SourceType.DATA /\ FalsyData(req.data)
    THEN ASRError(INVALID_PARAM, "data is required when sourceType=1")
    ELSE NoError

validateRequest(req) ==
    IF req.null
    THEN ASRError(INVALID_PARAM, "request is null")
    ELSE IF req.engServiceType = EmptyStr
    THEN ASRError(INVALID_PARAM, "engServiceType is required")
    ELSE IF req.voiceFormat = EmptyStr
    THEN ASRError(INVALID_PARAM, "voiceFormat is required")
    ELSE IF req.sourceType = SourceType.URL /\ FalsyStr(req.url)
    THEN ASRError(INVALID_PARAM, "url is required when sourceType=0")
    ELSE IF req.sourceType = SourceType.DATA /\ FalsyData(req.data)
    THEN ASRError(INVALID_PARAM, "data is required when sourceType=1")
    ELSE NoError

recognize(req, tok, gen) ==
    LET v == validateRequest(req) IN
    IF v # NoError THEN Throws(v)
    ELSE doRequest(tok, gen)

recognizeData(data, voiceFormat, engineModelType, tok, gen) ==
    IF BufferEmpty(data)
    THEN Throws(ASRError(INVALID_PARAM, "audio data is empty"))
    ELSE IF BufferTooLong(data, SentenceDataLimit)
    THEN Throws(ASRError(INVALID_PARAM, "audio data exceeds 3MB limit"))
    ELSE recognize([null |-> FALSE, engServiceType |-> engineModelType,
                    sourceType |-> SourceType.DATA, voiceFormat |-> voiceFormat,
                    url |-> Undef, data |-> Given(toStringBase64(data))],
                   tok, gen)

recognizeDataWithOptions(data, req, tok, gen) ==
    IF BufferEmpty(data)
    THEN Throws(ASRError(INVALID_PARAM, "audio data is empty"))
    ELSE IF BufferTooLong(data, SentenceDataLimit)
    THEN Throws(ASRError(INVALID_PARAM, "audio data exceeds 3MB limit"))
    ELSE IF req.null
    THEN Throws(TypeError)
    ELSE recognize([req EXCEPT !.sourceType = SourceType.DATA,
                               !.data = Given(toStringBase64(data))],
                   tok, gen)

recognizeURL(audioURL, voiceFormat, engineModelType, tok, gen) ==
    IF audioURL = EmptyStr
    THEN Throws(ASRError(INVALID_PARAM, "audio URL is empty"))
    ELSE recognize([null |-> FALSE, engServiceType |-> engineModelType,
                    sourceType |-> SourceType.URL, voiceFormat |-> voiceFormat,
                    url |-> Given(audioURL), data |-> Undef],
                   tok, gen)

\* ---- the arguments the callers pass ----

BuffersUpTo(limit) ==
    {NullBuffer, Buffer(0), Buffer(1), Buffer(limit), Buffer(limit + 1)}
Names == {EmptyStr, s_16k_zh}
Urls == {EmptyStr, s_url}
OptionalUrls == {Undef} \cup {Given(u) : u \in Urls}
OptionalData == {Undef, Given(0), Given(toStringBase64(Buffer(1)))}
CreateRecTaskRequests ==
    {NullRequest} \cup
    [null : {FALSE}, engineModelType : Names, channelNum : {0, 1},
     resTextFormat : {1}, sourceType : {FileSourceType.URL, FileSourceType.DATA},
     url : OptionalUrls, data : OptionalData]
SentenceRecognitionRequests ==
    {NullRequest} \cup
    [null : {FALSE}, engServiceType : Names, voiceFormat : {EmptyStr, s_pcm},
     sourceType : {SourceType.URL, SourceType.DATA},
     url : OptionalUrls, data : OptionalData]
Providers == {"ok", "throw"}

\* ---- one action per public method, and one for the answer ----
\* A method runs up to `await fetch(...)` when it is called: a call that is
\* turned away, or whose token provider throws, has rejected its promise by
\* then, and any other call has issued its request and left its promise
\* pending until the answer arrives, in a later turn of the event loop.
\* The recognizers keep nothing from one call to the next, so that a behaviour
\* makes one call, on a Credential whose token was set beforehand or not.

Uncalled == call.op = "none"

CallCreateTask ==
    /\ Uncalled
    /\ \E req \in CreateRecTaskRequests, gen \in Providers :
       /\ call' = [op |-> "createTask", req |-> req]
       /\ reply' = createTask(req, userSig, gen)

CallCreateTaskFromData ==
    /\ Uncalled
    /\ \E data \in BuffersUpTo(FileDataLimit), e \in Names, gen \in Providers :
       /\ call' = [op |-> "createTaskFromData", data |-> data, engineModelType |-> e]
       /\ reply' = createTaskFromData(data, e, userSig, gen)

CallCreateTaskFromURL ==
    /\ Uncalled
    /\ \E u \in Urls, e \in Names, gen \in Providers :
       /\ call' = [op |-> "createTaskFromURL", audioURL |-> u, engineModelType |-> e]
       /\ reply' = createTaskFromURL(u, e, userSig, gen)

CallCreateTaskFromDataWithOptions ==
    /\ Uncalled
    /\ \E data \in BuffersUpTo(FileDataLimit), req \in CreateRecTaskRequests,
       gen \in Providers :
       /\ call' = [op |-> "createTaskFromDataWithOptions", data |-> data, req |-> req]
       /\ reply' = createTaskFromDataWithOptions(data, req, userSig, gen)

CallDescribeTaskStatus ==
    /\ Uncalled
    /\ \E id \in {EmptyStr, s_task}, gen \in Providers :
       /\ call' = [op |-> "describeTaskStatus", recTaskId |-> id]
       /\ reply' = describeTaskStatus(id, userSig, gen)

CallRecognize ==
    /\ Uncalled
    /\ \E req \in SentenceRecognitionRequests, gen \in Providers :
       /\ call' = [op |-> "recognize", req |-> req]
       /\ reply' = recognize(req, userSig, gen)

CallRecognizeData ==
    /\ Uncalled
    /\ \E data \in BuffersUpTo(SentenceDataLimit), f \in {EmptyStr, s_pcm}, e \in Names,
       gen \in Providers :
       /\ call' = [op |-> "recognizeData", data |-> data, voiceFormat |-> f,
                   engineModelType |-> e]
       /\ reply' = recognizeData(data, f, e, userSig, gen)

CallRecognizeDataWithOptions ==
    /\ Uncalled
    /\ \E data \in BuffersUpTo(SentenceDataLimit), req \in SentenceRecognitionRequests,
       gen \in Providers :
       /\ call' = [op |-> "recognizeDataWithOptions", data |-> data, req |-> req]
       /\ reply' = recognizeDataWithOptions(data, req, userSig, gen)

CallRecognizeURL ==
    /\ Uncalled
    /\ \E u \in Urls, f \in {EmptyStr, s_pcm}, e \in Names, gen \in Providers :
       /\ call' = [op |-> "recognizeURL", audioURL |-> u, voiceFormat |-> f,
                   engineModelType |-> e]
       /\ reply' = recognizeURL(u, f, e, userSig, gen)

\* the message of the method's test of Response.Data: createTask and the
\* methods that end in it want a RecTaskId, describeTaskStatus wants Data, and
\* recognize has no such test
NoDataMessageOf(op) ==
    CASE op \in {"createTask", "createTaskFromData", "createTaskFromURL",
                 "createTaskFromDataWithOptions"} -> "empty RecTaskId in response"
      [] op = "describeTaskStatus" -> "empty response from server"
      [] OTHER -> "none"

\* the call is pending on its request
InFlight == ~Uncalled /\ reply.error = Unsettled

\* the return statement of the method, on the answer of a call r that passed
\* the checks: createTask returns the task id it read, describeTaskStatus
\* returns parseTaskStatus(response.Data), recognize returns
\* parseResult(response)
Returns(op, r, net) ==
    CASE op = "describeTaskStatus" -> parseTaskStatus(r, net)
      [] op \in {"recognize", "recognizeData", "recognizeDataWithOptions",
                 "recognizeURL"} -> parseResult(r, net)
      [] OTHER -> r

\* await fetch(...) of the call in flight settles, within the recognizer's
\* timeout (the abort timer armed before fetch): the request failed or was
\* aborted, and the call rejects with CONNECT_FAILED, or the headers of the
\* answer arrived, the abort timer is cleared and the body is awaited
HttpFetched ==
    /\ InFlight
    /\ \E fetched \in {"network", "headers"} :
          reply' = IF fetched = "network"
                   THEN fetchSettles(reply, "network")
                   ELSE [reply EXCEPT !.error = Reading]
    /\ UNCHANGED call

\* await resp.text() settles: the rest of doRequest runs (a body that could
\* not be read, the status test, JSON.parse), then the method's checks on the
\* parsed body and the building of its result, and the promise of the call is
\* settled
HttpAnswers ==
    /\ ~Uncalled
    /\ reply.error = Reading
    /\ \E net \in HttpReplies :
          reply' = Returns(call.op,
                           CheckResponse(fetchSettles(reply, net), net,
                                         NoDataMessageOf(call.op)),
                           net)
    /\ UNCHANGED call

HttpNext ==
    \/ (\E tok \in SigTokens \cup {EmptyStr} : setUserSig(tok))
          /\ UNCHANGED <<sigvars, ownvars, httpvars>>
    \/ CallCreateTask /\ UNCHANGED <<sigvars, sessvars, credvars, poll>>
    \/ CallCreateTaskFromData /\ UNCHANGED <<sigvars, sessvars, credvars, poll>>
    \/ CallCreateTaskFromURL /\ UNCHANGED <<sigvars, sessvars, credvars, poll>>
    \/ CallCreateTaskFromDataWithOptions /\ UNCHANGED <<sigvars, sessvars, credvars, poll>>
    \/ CallDescribeTaskStatus /\ UNCHANGED <<sigvars, sessvars, credvars, poll>>
    \/ CallRecognize /\ UNCHANGED <<sigvars, sessvars, credvars, poll>>
    \/ CallRecognizeData /\ UNCHANGED <<sigvars, sessvars, credvars, poll>>
    \/ CallRecognizeDataWithOptions /\ UNCHANGED <<sigvars, sessvars, credvars, poll>>
    \/ CallRecognizeURL /\ UNCHANGED <<sigvars, sessvars, credvars, poll>>
    \/ HttpFetched /\ UNCHANGED <<sigvars, sessvars, credvars, poll>>
    \/ HttpAnswers /\ UNCHANGED <<sigvars, sessvars, credvars, poll>>

HttpSpec == Init /\ [][HttpNext]_vars

\* ---- the polling loop of FileRecognizer: one wait per behaviour ----

\* task ids, intervals and timeouts (ms) handed to the wait, the statuses a
\* poll can report and the time (ms) a request that was issued takes
PollTaskIds == {EmptyStr, s_task}
PollIntervals == {0, 500}
PollTimeouts == {0, 1000}
TaskStatuses == {TaskStatusCode.WAITING, TaskStatusCode.RUNNING,
                 TaskStatusCode.SUCCESS, TaskStatusCode.FAILED}
PollLatencies == {500}

CallWaitForResult ==
    /\ poll.pc = "idle"
    /\ \E id \in PollTaskIds, gen \in Providers :
          poll' = waitForResultWithInterval("waitForResult", id,
                                            DefaultPollInterval, DefaultPollTimeout,
                                            describeTaskStatus(id, userSig, gen))
    /\ UNCHANGED <<call, reply>>

CallWaitForResultWithInterval ==
    /\ poll.pc = "idle"
    /\ \E id \in PollTaskIds, intervalMs \in PollIntervals, timeoutMs \in PollTimeouts,
          gen \in Providers :
          poll' = waitForResultWithInterval("waitForResultWithInterval", id,
                                            intervalMs, timeoutMs,
                                            describeTaskStatus(id, userSig, gen))
    /\ UNCHANGED <<call, reply>>

\* await fetch(...) of the poll in flight settles, within the recognizer's
\* timeout (the abort timer armed before fetch): the request failed or was
\* aborted, which ends the wait with CONNECT_FAILED, or the headers of the
\* answer arrived, the abort timer is cleared and the body is awaited
PollFetched ==
    /\ poll.pc = "polling"
    /\ \E fetched \in {"network", "headers"}, d \in PollLatencies :
          poll' = IF fetched = "network"
                  THEN pollTurn(fetchSettles(Outcome(Unsettled, FALSE, TRUE), "network"),
                                NoStatus, poll.now + d, "ok")
                  ELSE [poll EXCEPT !.pc = "reading"]
    /\ UNCHANGED <<call, reply>>

\* await resp.text() of the poll settles, which nothing bounds: the rest of
\* describeTaskStatus runs, await this.describeTaskStatus(recTaskId) settles,
\* and the loop body runs (the loop reads the error or the status of the
\* answer, and the fields its messages print)
PollReturns ==
    /\ poll.pc = "reading"
    /\ \E net \in HttpReplies, st \in TaskStatuses, d \in PollLatencies,
          msg \in {"ok", "throws"} :
          LET r == Returns("describeTaskStatus",
                           CheckResponse(fetchSettles(Outcome(Unsettled, FALSE, TRUE), net),
                                         net, NoDataMessageOf("describeTaskStatus")),
                           net)
          IN poll' = pollTurn(r, st, poll.now + d, msg)
    /\ UNCHANGED <<call, reply>>

\* await new Promise((resolve) => setTimeout(resolve, intervalMs)) ends, and
\* the loop calls describeTaskStatus again
SleepEnds ==
    /\ poll.pc = "sleeping"
    /\ \E gen \in Providers :
          poll' = pollAsks([poll EXCEPT !.now = @ + poll.interval],
                           describeTaskStatus(poll.id, userSig, gen))
    /\ UNCHANGED <<call, reply>>

PollNext ==
    \/ (\E tok \in CredTokens : setUserSig(tok))
          /\ UNCHANGED <<sigvars, ownvars, httpvars>>
    \/ CallWaitForResult /\ UNCHANGED <<sigvars, sessvars, credvars>>
    \/ CallWaitForResultWithInterval /\ UNCHANGED <<sigvars, sessvars, credvars>>
    \/ PollFetched /\ UNCHANGED <<sigvars, sessvars, credvars>>
    \/ PollReturns /\ UNCHANGED <<sigvars, sessvars, credvars>>
    \/ SleepEnds /\ UNCHANGED <<sigvars, sessvars, credvars>>

\* every fetch settles (it is aborted after the recognizer's timeout) and
\* every timer fires; the body of an answer may never arrive, since the abort
\* timer is cleared once the headers are there
PollFairness ==
    /\ WF_vars(PollFetched /\ UNCHANGED <<sigvars, sessvars, credvars>>)
    /\ WF_vars(SleepEnds /\ UNCHANGED <<sigvars, sessvars, credvars>>)

PollSpec == Init /\ [][PollNext]_vars /\ PollFairness

\* the call was turned away as a caller error before anything left the process
RejectedLocally ==
    /\ reply.error.code = INVALID_PARAM
    /\ ~reply.derived
    /\ ~reply.http

\* C18: FileRecognizer rejects with InvalidParam, with no HTTP request issued,
\* an empty or over-long buffer (createTaskFromData and
\* createTaskFromDataWithOptions), an empty URL (createTaskFromURL), a request
\* with an empty engineModelType, with sourceType URL and no url or with
\* sourceType DATA and no data (createTask), and an empty recTaskId
\* (describeTaskStatus); a buffer of exactly 5*1024*1024 bytes is not turned
\* away for its size.
C18_FileRecognizerRejects ==
    /\ call.op \in {"createTaskFromData", "createTaskFromDataWithOptions"} =>
          /\ (call.data.null \/ call.data.length = 0 \/ call.data.length > 5 * 1024 * 1024)
                => RejectedLocally
          /\ (~call.data.null /\ call.data.length = 5 * 1024 * 1024)
                => reply.error.message # "audio data exceeds 5MB limit"
    /\ (call.op = "createTaskFromData" /\ ~call.data.null
          /\ call.data.length = 5 * 1024 * 1024 /\ call.engineModelType # EmptyStr)
          => reply.error.code # INVALID_PARAM /\ (reply.http \/ reply.derived)
    /\ (call.op = "createTaskFromURL" /\ call.audioURL = EmptyStr) => RejectedLocally
    /\ (call.op = "createTask" /\ ~call.req.null) =>
          ((\/ call.req.engineModelType = EmptyStr
            \/ call.req.sourceType = 0 /\ (~call.req.url.given \/ call.req.url.v = EmptyStr)
            \/ call.req.sourceType = 1 /\ (~call.req.data.given \/ call.req.data.v = 0))
           => RejectedLocally)
    /\ (call.op = "describeTaskStatus" /\ call.recTaskId = EmptyStr) => RejectedLocally

\* a buffer one byte over the limit, passed with a complete request, was
\* turned away for its size before anything left the process
C18_Witness ==
    /\ call.op = "createTaskFromDataWithOptions"
    /\ ~call.data.null
    /\ call.data.length = 5 * 1024 * 1024 + 1
    /\ ~call.req.null
    /\ call.req.engineModelType # EmptyStr
    /\ userSig = EmptyStr
    /\ RejectedLocally
    /\ reply.error.message = "audio data exceeds 5MB limit"

\* C19: SentenceRecognizer rejects with InvalidParam, before any token
\* derivation and any HTTP request, an empty or over-long buffer (recognizeData
\* and recognizeDataWithOptions), an empty URL (recognizeURL), and a request
\* with an empty engServiceType, an empty voiceFormat, sourceType URL and no
\* url, or sourceType DATA and no data (recognize).
C19_SentenceRecognizerRejects ==
    /\ (call.op \in {"recognizeData", "recognizeDataWithOptions"}
          /\ (call.data.null \/ call.data.length = 0 \/ call.data.length > 3 * 1024 * 1024))
          => RejectedLocally
    /\ (call.op = "recognizeURL" /\ call.audioURL = EmptyStr) => RejectedLocally
    /\ (call.op = "recognize" /\ ~call.req.null) =>
          ((\/ call.req.engServiceType = EmptyStr
            \/ call.req.voiceFormat = EmptyStr
            \/ call.req.sourceType = 0 /\ (~call.req.url.given \/ call.req.url.v = EmptyStr)
            \/ call.req.sourceType = 1 /\ (~call.req.data.given \/ call.req.data.v = 0))
           => RejectedLocally)

\* a request that lacks only its voiceFormat was turned away while the
\* Credential held no token, and no token was derived
C19_Witness ==
    /\ call.op = "recognize"
    /\ ~call.req.null
    /\ call.req.engServiceType # EmptyStr
    /\ call.req.voiceFormat = EmptyStr
    /\ call.req.sourceType = 0
    /\ call.req.url = Given(s_url)
    /\ userSig = EmptyStr
    /\ RejectedLocally

----------------------------------------------------------------------------
(* Properties of the polling loop of FileRecognizer                        *)

\* the wait has ended
PollSettled == poll.pc = "settled"

\* the three endings of a wait whose polls all resolved: the status is
\* returned on SUCCESS, SERVER_ERROR on FAILED, TIMEOUT on any other status
\* read after the deadline
EndedByStatus ==
    \/ poll.status = 2 /\ poll.p = Resolved
    \/ poll.status = 3 /\ poll.p = Rejected(SERVER_ERROR)
    \/ /\ poll.status \in {0, 1}
       /\ poll.p = Rejected(TIMEOUT)
       /\ poll.now > poll.deadline

\* the wait ended because describeTaskStatus itself rejected: no status was
\* read, and the wait rejects with the error of that poll, an ASRError or a
\* TypeError (which has no code) thrown while the answer was checked or its
\* lists were read
EndedByPollError ==
    /\ poll.status = NoStatus
    /\ \/ poll.error.code \in {INVALID_PARAM, AUTH_FAILED, CONNECT_FAILED,
                               READ_FAILED, SERVER_ERROR}
       \/ poll.error = TypeError
    /\ poll.p = Rejected(poll.error.code)

\* the wait read FAILED, or another status after the deadline, and the
\* message of the error it was about to throw could not be built: it rejects
\* with that TypeError
EndedByMessageError ==
    /\ \/ poll.status = 3
       \/ poll.status \in {0, 1} /\ poll.now > poll.deadline
    /\ poll.error = TypeError
    /\ poll.p = Rejected(TypeError.code)

\* a wait is under way
PollWaiting == poll.pc \in {"polling", "reading", "sleeping"}

\* C33 as stated: a wait ends in exactly one of three ways, by SUCCESS, by
\* FAILED or by the deadline, after at least one poll, and with its finite
\* timeout it terminates.
C33_EndsInThreeWays ==
    /\ [](PollSettled => poll.polls >= 1 /\ EndedByStatus)
    /\ PollWaiting ~> PollSettled

\* C33 amended: a wait ends in exactly one of five ways: the three above, with
\* the error of the first poll that itself rejects, or with the TypeError
\* thrown while the message of the FAILED or of the deadline error is built.
\* It polls at least once, ends at the first SUCCESS or FAILED whatever the
\* clock says, goes on to sleep only after another status read no later than
\* the deadline, and it ends unless the body of an answer never arrives.
\* waitForResult waits with a 1 s interval and a 10 min timeout.
C33_EndsInFiveWays ==
    /\ [](PollSettled =>
            /\ poll.polls >= 1
            /\ (EndedByStatus \/ EndedByPollError \/ EndedByMessageError)
            /\ ~(EndedByStatus /\ EndedByPollError)
            /\ ~(EndedByStatus /\ EndedByMessageError)
            /\ ~(EndedByPollError /\ EndedByMessageError))
    /\ [](poll.op = "waitForResult" =>
              /\ poll.interval = 1000
              /\ poll.timeout = 600000
              /\ poll.deadline = 600000)
    /\ [][ /\ poll'.polls # poll.polls =>
                /\ poll.pc \in {"idle", "sleeping"}
                /\ poll'.polls = poll.polls + 1
           /\ poll'.status \in {2, 3} => poll'.pc = "settled"
           /\ (poll.pc = "reading" /\ poll'.pc = "sleeping") =>
                /\ poll'.status \in {0, 1}
                /\ poll'.now <= poll.deadline
           /\ poll.pc = "settled" => poll' = poll
         ]_vars
    /\ (<>[](poll.pc = "reading")) \/ (PollWaiting ~> PollSettled)

\* a wait ended with the error of its second poll, a request that failed
\* after the task had been reported as not finished once
C33_Witness ==
    /\ PollSettled
    /\ poll.op = "waitForResultWithInterval"
    /\ poll.polls = 2
    /\ poll.status = NoStatus
    /\ poll.p = Rejected(CONNECT_FAILED)

============================================================================
